---- MODULE Spec2Model ----
(***************************************************************************)
(* Loan lifecycle engine of loans.py: the overdue transition, the penalty  *)
(* application, the notification steps of a run and the retry wrapper,     *)
(* over a remote store of loans, clients, licences and payments.           *)
(*                                                                         *)
(* Money held by the store is counted in cents.  The engine converts the   *)
(* amounts it reads with float(), so the sums it compares are IEEE-754     *)
(* binary64 values; they are modelled exactly, as fixed-point integers of  *)
(* three 25-bit limbs scaled by 2^60, rounded to 53 significant bits       *)
(* (round-half-even) after every conversion and addition.                  *)
(* Dates are year*10000 + month*100 + day; a run takes place at one date.  *)
(***************************************************************************)
EXTENDS Integers, Sequences, FiniteSets, TLC

VARIABLES loans,      \* table loans: id -> record
          payments,   \* table loan_payments, in insertion order
          clients,    \* table clients: id -> record
          licences,   \* table gun_licences: id -> record
          today,      \* index into Timeline: the date of datetime.now()
          runs,       \* number of engine invocations so far
          outage,     \* the fault the remote calls of this behaviour meet
          last,       \* the latest invocation: its arguments, the loans before it, its
                      \* result, and the invocation just before it (prior); reset by
                      \* every step of the environment
          rcall,      \* one call of retry_with_backoff: its script and result
          proc        \* the position of a main run followed statement by statement

vars == <<loans, payments, clients, licences, today, runs, outage, last, rcall, proc>>

(***************************************************************************)
(* Bounds of the model.                                                    *)
(***************************************************************************)
NumLoans    == 2     \* loans in the store
MaxPayments == 2     \* payment records the external process appends
MaxRuns     == 2     \* engine invocations in one behaviour
ScriptLen   == 5     \* calls a wrapped remote function is scripted for

(***************************************************************************)
(* Values of the program.                                                  *)
(***************************************************************************)
max_retries       == 3     \* every call site passes max_retries=3
None              == -1    \* a NULL column / Python None
Unparseable       == -2    \* a value float() or fromisoformat() rejects
PenaltyPercent    == 10    \* new_penalty = round(loan_amount * 0.1, 2)
Instalments       == 3     \* expected_payment = round(loan_amount / 3, 2)
PenaltyDay        == 3     \* is_3rd_of_month
PaymentReminderDay == 22   \* is_22nd_of_month
DueReminderDay    == 28    \* is_28th_of_month
DueDay            == 28    \* min(28, last_day)

LoanIds   == 1 .. NumLoans

(***************************************************************************)
(* Calendar dates.                                                         *)
(***************************************************************************)
Date(y, m, d) == y * 10000 + m * 100 + d
YearOf(dt)    == dt \div 10000
MonthOf(dt)   == (dt \div 100) % 100
DayOf(dt)     == dt % 100

\* datetime(now.year, now.month, 1)
first_day_of_month(now) == Date(YearOf(now), MonthOf(now), 1)

\* the first day of the month after now (December rolls the year over)
next_month_start(now) ==
    IF MonthOf(now) = 12 THEN Date(YearOf(now) + 1, 1, 1)
    ELSE Date(YearOf(now), MonthOf(now) + 1, 1)

\* calendar.monthrange(year, month)[1]
last_day_of_month(y, m) ==
    IF m \in {4, 6, 9, 11} THEN 30
    ELSE IF m # 2 THEN 31
    ELSE IF (y % 4 = 0 /\ y % 100 # 0) \/ y % 400 = 0 THEN 29 ELSE 28

next_month_end(now) ==
    LET s == next_month_start(now)
    IN  Date(YearOf(s), MonthOf(s), last_day_of_month(YearOf(s), MonthOf(s)))

\* The dates at which the engine is invoked, in order.
Timeline == << Date(2024, 12, 22), Date(2024, 12, 28),
               Date(2025, 1, 3),   Date(2025, 1, 10) >>

Now == Timeline[today]

\* the gate taken for "from the 22nd on"
is_22nd_of_month_from_22nd(now) == DayOf(now) >= PaymentReminderDay

is_3rd_of_month_from_3rd(now) == DayOf(now) >= PenaltyDay
is_3rd_of_month(now)  == DayOf(now) = PenaltyDay
is_22nd_of_month(now) == DayOf(now) = PaymentReminderDay
is_28th_of_month(now) == DayOf(now) = DueReminderDay

(***************************************************************************)
(* binary64 arithmetic on non-negative values below 2^15.                  *)
(* A value v is the limb triple <<l0, l1, l2>> with                       *)
(* v * 2^60 = l0 + l1 * 2^25 + l2 * 2^50.                                  *)
(***************************************************************************)
RECURSIVE Pow2(_)
Pow2(n) == IF n = 0 THEN 1 ELSE 2 * Pow2(n - 1)

LimbBits     == 25
LimbBase     == Pow2(LimbBits)
MantissaBits == 53

RECURSIVE BitLen(_)
BitLen(n) == IF n = 0 THEN 0 ELSE 1 + BitLen(n \div 2)

FxZero == <<0, 0, 0>>

FxAdd(x, y) ==
    LET s0 == x[1] + y[1]
        s1 == x[2] + y[2] + (s0 \div LimbBase)
        s2 == x[3] + y[3] + (s1 \div LimbBase)
    IN  <<s0 % LimbBase, s1 % LimbBase, s2>>

\* x >= y
FxGeq(x, y) ==
    IF x[3] # y[3] THEN x[3] > y[3]
    ELSE IF x[2] # y[2] THEN x[2] > y[2]
    ELSE x[1] >= y[1]

FxBitLen(x) ==
    IF x[3] > 0 THEN 2 * LimbBits + BitLen(x[3])
    ELSE IF x[2] > 0 THEN LimbBits + BitLen(x[2])
    ELSE BitLen(x[1])

\* Round to 53 significant bits, ties to even; sticky says that the exact
\* value lies strictly above x.
RoundToDouble(x, sticky) ==
    LET cut == FxBitLen(x) - MantissaBits
    IN  IF cut <= 0 THEN x
        ELSE LET u    == Pow2(cut)
                 low  == x[1] % u
                 half == u \div 2
                 odd  == (x[1] \div u) % 2 = 1
                 up   == low > half \/ (low = half /\ (sticky \/ odd))
                 base == <<x[1] - low, x[2], x[3]>>
             IN  IF up THEN FxAdd(base, <<u, 0, 0>>) ELSE base

\* 25 quotient bits of r * 2^(5k) / 100, five bits at a time, and the remainder
RECURSIVE LimbDiv(_, _)
LimbDiv(r, k) ==
    IF k = 0 THEN <<0, r>>
    ELSE LET d    == r * 32
             rest == LimbDiv(d % 100, k - 1)
         IN  <<(d \div 100) * Pow2(5 * (k - 1)) + rest[1], rest[2]>>

\* float(x) of a decimal amount of c cents: the double nearest to c / 100
float(c) ==
    LET t   == c * 1024
        mid == LimbDiv(t % 100, 5)
        lo  == LimbDiv(mid[2], 5)
    IN  RoundToDouble(<<lo[1], mid[1], t \div 100>>, lo[2] # 0)

\* a + b on doubles
FloatAdd(x, y) == RoundToDouble(FxAdd(x, y), FALSE)

(***************************************************************************)
(* retry_with_backoff(func, max_retries, initial_delay, backoff_factor,    *)
(* exceptions_to_retry).  func is the script of its calls: the outcome of  *)
(* its k-th call is script[k], one of "ok", "transient" (an exception of   *)
(* exceptions_to_retry) and "other" (any other exception).                 *)
(* The result says how it ended, how many times func was called and how    *)
(* often it slept.                                                         *)
(***************************************************************************)
Outcomes == {"ok", "transient", "other"}

\* exceptions_to_retry: the default (Exception,) catches every failure; the
\* tuple send_email passes, (SMTPException, ConnectionError, TimeoutError),
\* catches the transport failures only
AnyException   == {"transient", "other"}
SmtpExceptions == {"transient"}

RECURSIVE retry_loop_off_by_one(_, _, _, _)
retry_loop_off_by_one(script, maxr, exceptions_to_retry, retries) ==
    IF retries > maxr
    THEN [status |-> "raised", calls |-> retries, sleeps |-> retries - 1]
    ELSE LET out == script[retries + 1]
         IN  IF out = "ok"
             THEN [status |-> "returned", calls |-> retries + 1, sleeps |-> retries]
             ELSE IF out \notin exceptions_to_retry
             THEN [status |-> "raised", calls |-> retries + 1, sleeps |-> retries]
             ELSE retry_loop_off_by_one(script, maxr, exceptions_to_retry, retries + 1)

\* the while loop, entered with `retries` failed attempts behind it: how the
\* call ends, the attempts made and the backoff waits slept
RECURSIVE retry_loop(_, _, _, _)
retry_loop(script, maxr, exceptions_to_retry, retries) ==
    IF ~(retries < maxr)
    THEN \* loop left without a call: raise last_exception, or return None
         [status |-> IF retries > 0 THEN "raised" ELSE "returned",
          calls |-> retries, sleeps |-> retries]
    ELSE LET out == script[retries + 1]
         IN  IF out = "ok"
             THEN [status |-> "returned", calls |-> retries + 1, sleeps |-> retries]
             ELSE IF out \notin exceptions_to_retry
             THEN \* not caught: propagates out of the wrapper
                  [status |-> "raised", calls |-> retries + 1, sleeps |-> retries]
             ELSE IF retries + 1 >= maxr
             THEN \* break, then raise last_exception
                  [status |-> "raised", calls |-> retries + 1, sleeps |-> retries]
             ELSE retry_loop(script, maxr, exceptions_to_retry, retries + 1)

retry_with_backoff(script, maxr, exceptions_to_retry) ==
    retry_loop(script, maxr, exceptions_to_retry, 0)


(***************************************************************************)
(* Remote calls.  A run meets at most one fault: the calls of one call     *)
(* site, for the loans named, misbehave.  "down": every attempt raises a   *)
(* transport error; "flaky": the first attempt raises, the next succeeds;  *)
(* "empty": the call succeeds and returns no rows.                         *)
(***************************************************************************)
NoFault == [site |-> "none", loans |-> {}, kind |-> "down"]

\* the call sites made for one loan, and those made once in a run
LoanSites ==
    { "overdue.query_payments", "overdue.update_loan_status",
      "penalty.query_payments", "penalty.update_loan_penalty",
      "due.query_client", "due.query_licence", "create_invoice_email",
      "smtp.client", "smtp.copy",
      "notify.get_client_info", "reminder.get_client_info" }

BatchSites ==
    { "overdue.query_overdue_loans", "penalty.query_overdue_loans",
      "due.query_loans", "notify.query_overdue_loans",
      "reminder.query_active_loans", "main.connection_test",
      "check_database_connection", "smtp.admin" }

\* the call sites an outage reaches: the site it names, or every remote call
\* when the network is lost ("network": before the run; "network.late":
\* after the initial check_database_connection)
Affected(fault) ==
    IF fault.site = "network"
    THEN (LoanSites \cup BatchSites) \ {"create_invoice_email"}
    ELSE IF fault.site = "network.late"
    THEN (LoanSites \cup BatchSites)
            \ {"create_invoice_email", "check_database_connection"}
    ELSE {fault.site}

\* the outcomes of the successive attempts of the call of `site` for loan l
\* (l = 0 for a call that concerns no single loan)
Script(site, l, fault) ==
    [k \in 1 .. ScriptLen |->
        IF site \in Affected(fault) /\ (l = 0 \/ l \in fault.loans)
           /\ (fault.kind = "down" \/ (fault.kind = "flaky" /\ k = 1))
        THEN "transient" ELSE "ok"]

\* retry_with_backoff(f, max_retries=3, initial_delay=1) returned a response
call_ok(site, l, fault) ==
    retry_with_backoff(Script(site, l, fault), max_retries, AnyException).status
        = "returned"

\* send_email(...) returned True: the SMTP conversation, retried on
\* SMTPException, ConnectionError and TimeoutError
send_email(site, l, fault) ==
    retry_with_backoff(Script(site, l, fault), max_retries, SmtpExceptions).status
        = "returned"

\* response.data is empty
no_rows(site, l, fault) ==
    fault.site = site /\ l \in fault.loans /\ fault.kind = "empty"

\* a call made without the retry wrapper: one attempt
direct_call_ok(site, fault) == Script(site, 0, fault)[1] = "ok"

(***************************************************************************)
(* Payment sufficiency, as update_overdue_loans and                        *)
(* apply_penalties_to_overdue_loans compute it.                            *)
(***************************************************************************)
IdSeq == [i \in 1 .. NumLoans |-> i]

query_payments_whole_history(pays, l, now) ==
    SelectSeq(pays, LAMBDA p : p.loan_id = l /\ p.payment_date <= now)

\* loan_payments rows with loan_id = l and first_day_of_month <= payment_date <= now
query_payments(pays, l, now) ==
    SelectSeq(pays, LAMBDA p : /\ p.loan_id = l
                               /\ p.payment_date >= first_day_of_month(now)
                               /\ p.payment_date <= now)

\* total_payments_this_month: 0, then += float(payment['amount']) for every row
\* whose amount float() accepts
RECURSIVE sum_payments(_, _)
sum_payments(ps, total) ==
    IF ps = <<>> THEN total
    ELSE sum_payments(Tail(ps),
                      IF Head(ps).amount < 0 THEN total
                      ELSE FloatAdd(total, float(Head(ps).amount)))

total_payments_this_month(pays, l, now) ==
    sum_payments(query_payments(pays, l, now), FxZero)

\* cents of round(loan_amount / 3, 2): a third of a whole number of cents is
\* never half a cent away from a cent, so the rounding is to the nearest cent
expected_cents(loan_amount) == (2 * loan_amount + Instalments) \div (2 * Instalments)

\* expected_payment = round(float(loan['loan_amount']) / 3, 2)
expected_payment(loan_amount) == float(expected_cents(loan_amount))

\* total_payments_this_month >= expected_payment
payments_sufficient(pays, l, ln, now) ==
    FxGeq(total_payments_this_month(pays, l, now), expected_payment(ln.loan_amount))

(***************************************************************************)
(* update_overdue_loans.                                                   *)
(***************************************************************************)
\* .eq('status', 'active').lt('payment_due_date', now)
query_active_past_due(ls, now) ==
    SelectSeq(IdSeq, LAMBDA l : /\ ls[l].status = "active"
                                /\ ls[l].payment_due_date # None
                                /\ ls[l].payment_due_date < now)

\* One pass of the for loop over a loan of the response:
\*   "error"     the loan is skipped with error_count += 1
\*   "skipped"   sufficient payments, skipped_count += 1
\*   "unchanged" the update returned no rows
\*   "updated"   status set to overdue, updated_count += 1
overdue_step(ln, l, pays, now, fault) ==
    IF ln.payment_due_date = None \/ ln.loan_amount = None THEN "error"
    ELSE IF ln.due_format # "iso" THEN "error"
    ELSE IF ln.loan_amount = Unparseable THEN "error"
    ELSE IF ~call_ok("overdue.query_payments", l, fault) THEN "error"
    ELSE IF payments_sufficient(pays, l, ln, now) THEN "skipped"
    ELSE IF ~call_ok("overdue.update_loan_status", l, fault) THEN "error"
    ELSE IF no_rows("overdue.update_loan_status", l, fault) THEN "unchanged"
    ELSE "updated"

batch_aborts_on_error(out) == out # "error"

\* the try/except around the body of the for loop: after any outcome of one
\* loan the loop goes on with the next loan
batch_continues(out) == TRUE

NotReached == [l \in LoanIds |-> "none"]

\* for loan in response.data: the outcome of every loan of the response, in
\* order, given the outcome outs[l] the loop body has for loan l
RECURSIVE batch_loop(_, _)
batch_loop(ids, outs) ==
    IF ids = <<>> THEN NotReached
    ELSE [ (IF batch_continues(outs[Head(ids)]) THEN batch_loop(Tail(ids), outs)
            ELSE NotReached) EXCEPT ![Head(ids)] = outs[Head(ids)] ]

\* supabase.table('loans').update({'status': 'overdue'}).eq('id', loan_id)
status_update(ln, out) ==
    IF out = "updated" THEN [ln EXCEPT !.status = "overdue"] ELSE ln

overdue_result_counting_attempts(ls, out) ==
    [out   |-> out,
     loans |-> [l \in LoanIds |-> status_update(ls[l], out[l])],
     count |-> Cardinality({l \in LoanIds : out[l] \in {"updated", "unchanged"}})]

\* The outcome per loan ("none": not in the response, or the query failed), the
\* loans table afterwards and the returned updated_count.
overdue_result(ls, out) ==
    [out   |-> out,
     loans |-> [l \in LoanIds |-> status_update(ls[l], out[l])],
     count |-> Cardinality({l \in LoanIds : out[l] = "updated"})]

update_overdue_loans(ls, pays, now, fault) ==
    overdue_result(ls,
        IF call_ok("overdue.query_overdue_loans", 0, fault)
        THEN batch_loop(query_active_past_due(ls, now),
                        [l \in LoanIds |-> overdue_step(ls[l], l, pays, now, fault)])
        ELSE NotReached)

(***************************************************************************)
(* apply_penalties_to_overdue_loans.                                       *)
(***************************************************************************)
\* .eq('status', 'overdue')
query_overdue(ls) == SelectSeq(IdSeq, LAMBDA l : ls[l].status = "overdue")

\* new_penalty = round(loan_amount * 0.1, 2), in cents.  The loan amounts of the
\* model are whole multiples of ten cents, where the product has no half cent.
new_penalty(loan_amount) == (loan_amount * PenaltyPercent + 50) \div 100

\* One pass of the for loop: "error", "skipped" (sufficient payments),
\* "unchanged" (the update returned no rows) or "penalised".
penalty_step(ln, l, pays, now, fault) ==
    IF \/ ln.payment_due_date = None \/ ln.loan_amount = None
       \/ ln.remaining_balance = None THEN "error"
    ELSE IF ln.due_format # "iso" THEN "error"
    ELSE IF ln.loan_amount = Unparseable THEN "error"
    ELSE IF ~call_ok("penalty.query_payments", l, fault) THEN "error"
    ELSE IF payments_sufficient(pays, l, ln, now) THEN "skipped"
    ELSE IF ln.remaining_balance = Unparseable \/ ln.penalties < 0 THEN "error"
    ELSE IF ~call_ok("penalty.update_loan_penalty", l, fault) THEN "error"
    ELSE IF no_rows("penalty.update_loan_penalty", l, fault) THEN "unchanged"
    ELSE "penalised"

penalty_update_resets(ln, out) ==
    IF out = "penalised" THEN [ln EXCEPT !.penalties = new_penalty(ln.loan_amount)]
    ELSE ln

penalty_update_reactivates(ln, out) ==
    IF out = "penalised"
    THEN [ln EXCEPT !.penalties = ln.penalties + new_penalty(ln.loan_amount)]
    ELSE IF out = "skipped" THEN [ln EXCEPT !.status = "active"]
    ELSE ln

penalty_update_clears(ln, out) ==
    IF out = "penalised"
    THEN [ln EXCEPT !.penalties = ln.penalties + new_penalty(ln.loan_amount)]
    ELSE IF out = "skipped" THEN [ln EXCEPT !.penalties = 0]
    ELSE ln

penalty_update_to_balance(ln, out) ==
    IF out = "penalised"
    THEN [ln EXCEPT !.penalties = ln.penalties + new_penalty(ln.loan_amount),
                    !.remaining_balance = ln.remaining_balance + new_penalty(ln.loan_amount)]
    ELSE ln

\* total_penalties = current_penalties + new_penalty;
\* supabase.table('loans').update({'penalties': penalties}).eq('id', loan_id)
penalty_update(ln, out) ==
    IF out = "penalised"
    THEN [ln EXCEPT !.penalties = ln.penalties + new_penalty(ln.loan_amount)]
    ELSE ln

\* The outcome per loan, the loans table afterwards and the tuple returned:
\* (penalty_count, skipped_count).
penalty_result(ls, out) ==
    [out     |-> out,
     loans   |-> [l \in LoanIds |-> penalty_update(ls[l], out[l])],
     penalty_count |-> Cardinality({l \in LoanIds : out[l] = "penalised"}),
     skipped_count |-> Cardinality({l \in LoanIds : out[l] = "skipped"})]

\* The date gate, the query, the loop.
apply_penalties_to_overdue_loans(bypass_date_check, ls, pays, now, fault) ==
    penalty_result(ls,
        IF /\ bypass_date_check \/ is_3rd_of_month(now)
           /\ call_ok("penalty.query_overdue_loans", 0, fault)
        THEN batch_loop(query_overdue(ls),
                        [l \in LoanIds |-> penalty_step(ls[l], l, pays, now, fault)])
        ELSE NotReached)


(***************************************************************************)
(* Emails.  An email is [kind, loan, to]; to is "client", "copy" (the      *)
(* fixed internal copy address) or "admin".  Of a loop, `tried` are the    *)
(* emails send_email was called with, in order, and `emails` those of them *)
(* that the SMTP server took.                                              *)
(***************************************************************************)
Email(kind, l, to) == [kind |-> kind, loan |-> l, to |-> to]

\* the clients row of the loan, if there is one
has_client(ln, cl) == ln.client_id \in DOMAIN cl
has_email(ln, cl)  == has_client(ln, cl) /\ cl[ln.client_id].email # ""

\* start_date.replace(month=...) three times over: the day of the start date
\* must exist in each of the three following months
RECURSIVE replace_month_ok(_, _, _, _)
replace_month_ok(y, m, d, k) ==
    IF k = 0 THEN TRUE
    ELSE LET m2 == IF m < 12 THEN m + 1 ELSE 1
             y2 == IF m < 12 THEN y ELSE y + 1
         IN  d <= last_day_of_month(y2, m2) /\ replace_month_ok(y2, m2, d, k - 1)

\* create_invoice_email(loan, is_quote) returns a body (it raises otherwise)
create_invoice_email_ok(ln, l, due_text_ok, fault) ==
    /\ due_text_ok
    /\ ln.loan_amount >= 0
    /\ ln.penalties >= 0
    /\ ln.start_date >= 0
    /\ replace_month_ok(YearOf(ln.start_date), MonthOf(ln.start_date),
                        DayOf(ln.start_date), Instalments)
    /\ ln.remaining_balance >= 0
    /\ ~(fault.site = "create_invoice_email" /\ l \in fault.loans)

send_pair_without_copy(kind, l, ln, cl, send_emails, fault) ==
    IF ~send_emails THEN [emails |-> <<>>, tried |-> <<>>, counted |-> TRUE]
    ELSE [emails |-> <<Email(kind, l, "client")>>,
          tried  |-> <<Email(kind, l, "client")>>, counted |-> TRUE]

\* send_email to the client, then the copy, in one try block: the emails
\* handed over and whether the loan is counted a success
send_pair(kind, l, ln, cl, send_emails, fault) ==
    IF ~send_emails THEN [emails |-> <<>>, tried |-> <<>>, counted |-> TRUE]
    ELSE IF ~has_email(ln, cl) \/ ~send_email("smtp.client", l, fault)
    THEN [emails |-> <<>>, tried |-> <<Email(kind, l, "client")>>, counted |-> FALSE]
    ELSE IF ~send_email("smtp.copy", l, fault)
    THEN [emails |-> <<Email(kind, l, "client")>>,
          tried  |-> <<Email(kind, l, "client"), Email(kind, l, "copy")>>,
          counted |-> FALSE]
    ELSE [emails |-> <<Email(kind, l, "client"), Email(kind, l, "copy")>>,
          tried  |-> <<Email(kind, l, "client"), Email(kind, l, "copy")>>,
          counted |-> TRUE]

\* send_email(ADMIN_EMAIL, ...) inside its own try block
send_admin(kind, fault) ==
    [emails |-> IF send_email("smtp.admin", 0, fault)
                THEN <<Email(kind, 0, "admin")>> ELSE <<>>,
     tried  |-> <<Email(kind, 0, "admin")>>]

\* no email to the admin was called for
NoAdmin == [emails |-> <<>>, tried |-> <<>>]

NoMail == [emails |-> <<>>, tried |-> <<>>, counted |-> FALSE]

NoMails == [emails |-> <<>>, tried |-> <<>>, counted |-> {}, count |-> 0]

\* the emails of a loop over ids, in order, the loans counted and the
\* success_count of the loop (+= 1 for every loan counted)
RECURSIVE gather(_, _)
gather(ids, sent) ==
    IF ids = <<>> THEN NoMails
    ELSE LET rest == gather(Tail(ids), sent)
             l    == Head(ids)
         IN  [emails  |-> sent[l].emails \o rest.emails,
              tried   |-> sent[l].tried \o rest.tried,
              counted |-> (IF sent[l].counted THEN {l} ELSE {}) \cup rest.counted,
              count   |-> (IF sent[l].counted THEN 1 ELSE 0) + rest.count]

(***************************************************************************)
(* get_loans_due_next_month.                                               *)
(***************************************************************************)
\* .eq('status', 'active').gte(due, next_month_start).lte(due, next_month_end)
query_due_next_month_of_any_status(ls, now) ==
    SelectSeq(IdSeq, LAMBDA l : /\ ls[l].payment_due_date # None
                                /\ ls[l].payment_due_date >= next_month_start(now)
                                /\ ls[l].payment_due_date <= next_month_end(now))

query_due_next_month(ls, now) ==
    SelectSeq(IdSeq, LAMBDA l : /\ ls[l].status = "active"
                                /\ ls[l].payment_due_date # None
                                /\ ls[l].payment_due_date >= next_month_start(now)
                                /\ ls[l].payment_due_date <= next_month_end(now))

\* due_date.replace(day=min(28, last_day))
normalize_due_date_to_30th(dt) ==
    LET lastd == last_day_of_month(YearOf(dt), MonthOf(dt))
    IN  Date(YearOf(dt), MonthOf(dt), IF 30 < lastd THEN 30 ELSE lastd)

\* due_date.replace(day=min(28, last_day)), last_day from calendar.monthrange
normalize_due_date(dt) ==
    LET lastd == last_day_of_month(YearOf(dt), MonthOf(dt))
    IN  Date(YearOf(dt), MonthOf(dt), IF DueDay < lastd THEN DueDay ELSE lastd)

\* One pass of the loop: "listed" (appended with its client), "dropped" (no
\* client row: not appended) or "raise" (an exception leaves the loop)
due_step(ln, l, cl, fault) ==
    IF ~call_ok("due.query_client", l, fault) THEN "raise"
    ELSE IF ~has_client(ln, cl) \/ no_rows("due.query_client", l, fault) THEN "dropped"
    ELSE IF ln.weapon_cost = Unparseable
            \/ (ln.weapon_cost # None /\ ln.loan_amount = Unparseable) THEN "raise"
    ELSE IF ln.license_id # None /\ ~call_ok("due.query_licence", l, fault) THEN "raise"
    ELSE IF ln.due_format # "iso" THEN "raise"
    ELSE "listed"

\* there is no try block inside the for loop: an exception of one loan reaches
\* the except clause of the function, which returns []
due_list_continues(out) == out # "raise"

RECURSIVE due_loop(_, _, _, _)
due_loop(ids, ls, cl, fault) ==
    IF ids = <<>> THEN [list |-> <<>>, raised |-> FALSE]
    ELSE LET l   == Head(ids)
             out == due_step(ls[l], l, cl, fault)
         IN  IF ~due_list_continues(out) THEN [list |-> <<>>, raised |-> TRUE]
             ELSE LET rest == due_loop(Tail(ids), ls, cl, fault)
                  IN  [list   |-> IF out = "listed" THEN <<l>> \o rest.list
                                  ELSE rest.list,
                       raised |-> rest.raised]

\* the list of loans returned: [] when the query or any loan raises
get_loans_due_next_month(ls, cl, now, fault) ==
    IF ~call_ok("due.query_loans", 0, fault) THEN <<>>
    ELSE LET r == due_loop(query_due_next_month(ls, now), ls, cl, fault)
         IN  IF r.raised THEN <<>> ELSE r.list

(***************************************************************************)
(* The notification loops.  Each returns the emails handed to SMTP, in     *)
(* order, and the set of loans counted in its success_count.               *)
(***************************************************************************)
\* main: the statement / paid invoice of one loan of the list
statement_kind_from_zero(ln) ==
    IF ln.remaining_balance >= 0 THEN "statement" ELSE "invoice"

statement_kind(ln) == IF ln.remaining_balance > 0 THEN "statement" ELSE "invoice"

statement_step(ln, l, cl, send_emails, fault) ==
    IF ln.invoice_number = None \/ ln.loan_amount = None
       \/ ln.remaining_balance = None THEN NoMail
    ELSE IF ln.remaining_balance = Unparseable THEN NoMail
    ELSE IF ~create_invoice_email_ok(ln, l, TRUE, fault) THEN NoMail
    ELSE send_pair(statement_kind(ln), l, ln, cl, send_emails, fault)

\* document_type of the loan in the statement loop: "none" when the loan is
\* skipped before is_statement is computed
document_type(ln) ==
    IF ln.invoice_number = None \/ ln.loan_amount = None
       \/ ln.remaining_balance \in {None, Unparseable} THEN "none"
    ELSE statement_kind(ln)

send_statements(list, ls, cl, send_emails, fault) ==
    gather(list, [l \in LoanIds |-> statement_step(ls[l], l, cl, send_emails, fault)])

\* send_payment_reminders: one loan of the list
payment_reminder_step(ln, l, cl, send_emails, fault) ==
    IF ln.invoice_number = None \/ ln.loan_amount = None
       \/ ln.remaining_balance = None THEN NoMail
    ELSE IF ~has_email(ln, cl) THEN NoMail
    ELSE IF ln.loan_amount = Unparseable THEN NoMail
    ELSE IF ~create_invoice_email_ok(ln, l, TRUE, fault) THEN NoMail
    ELSE send_pair("payment_reminder", l, ln, cl, send_emails, fault)

\* force22: is_22nd_of_month has been replaced by lambda: True
send_payment_reminders(send_emails, force22, ls, cl, now, fault) ==
    IF ~(force22 \/ is_22nd_of_month(now)) THEN NoMails
    ELSE gather(get_loans_due_next_month(ls, cl, now, fault),
                [l \in LoanIds |->
                    payment_reminder_step(ls[l], l, cl, send_emails, fault)])

\* notify_overdue_loans: one overdue loan
overdue_notice_step(ln, l, cl, send_emails, fault) ==
    IF ln.invoice_number = None \/ ln.loan_amount = None
       \/ ln.remaining_balance = None \/ ln.client_id = None THEN NoMail
    ELSE IF ~call_ok("notify.get_client_info", l, fault) THEN NoMail
    ELSE IF ~has_email(ln, cl) THEN NoMail
    ELSE IF ~create_invoice_email_ok(ln, l, TRUE, fault) THEN NoMail
    ELSE send_pair("overdue_notice", l, ln, cl, send_emails, fault)

notify_overdue_loans(send_emails, ls, cl, fault) ==
    IF ~call_ok("notify.query_overdue_loans", 0, fault) THEN NoMails
    ELSE gather(query_overdue(ls),
                [l \in LoanIds |->
                    overdue_notice_step(ls[l], l, cl, send_emails, fault)])

\* .eq('status', 'active').gte(due, now).lte(due, next_month_start)
query_due_soon(ls, now) ==
    SelectSeq(IdSeq, LAMBDA l : /\ ls[l].status = "active"
                                /\ ls[l].payment_due_date # None
                                /\ ls[l].payment_due_date >= now
                                /\ ls[l].payment_due_date <= next_month_start(now))

\* send_due_date_reminders: one loan; the template parses the due date as stored
due_date_reminder_step(ln, l, cl, send_emails, fault) ==
    IF ln.invoice_number = None \/ ln.loan_amount = None
       \/ ln.remaining_balance = None \/ ln.client_id = None THEN NoMail
    ELSE IF ~call_ok("reminder.get_client_info", l, fault) THEN NoMail
    ELSE IF ~has_email(ln, cl) THEN NoMail
    ELSE IF ~create_invoice_email_ok(ln, l, ln.due_format = "iso", fault) THEN NoMail
    ELSE send_pair("due_date_reminder", l, ln, cl, send_emails, fault)

\* force28: is_28th_of_month has been replaced by lambda: True
send_due_date_reminders(send_emails, force28, ls, cl, now, fault) ==
    IF ~(force28 \/ is_28th_of_month(now)) THEN NoMails
    ELSE IF ~call_ok("reminder.query_active_loans", 0, fault) THEN NoMails
    ELSE gather(query_due_soon(ls, now),
                [l \in LoanIds |->
                    due_date_reminder_step(ls[l], l, cl, send_emails, fault)])


(***************************************************************************)
(* main and run_cli.  The result of an invocation: the loans table after   *)
(* it, the table between the overdue transition and the penalties (mid),   *)
(* the outcome of every loan in both batches, the steps run in order, the  *)
(* emails send_email was called with (tried) and those the SMTP server     *)
(* took (outbox), in order, the document type of every loan of the         *)
(* statement loop, the loans counted by every notification loop and the    *)
(* exit code.                                                              *)
(***************************************************************************)
NoDocuments == [l \in LoanIds |-> "none"]

\* globals()['is_22nd_of_month'] and globals()['is_28th_of_month']: the
\* functions of the module
OriginalPredicates ==
    [payment_reminders |-> "is_22nd_of_month", due_date_reminders |-> "is_28th_of_month"]

\* globals()[...] = lambda: True, for the reminders of the flag given
patched(predicates, op) == [predicates EXCEPT ![op] = "lambda: True"]

finally_skipped(predicates, original) == predicates

\* finally: globals()[...] = original_is_22nd (original_is_28th)
finally_restored(predicates, original) == original

Quiet(op, ls) ==
    [op |-> op, loans |-> ls, mid |-> ls, steps |-> <<>>,
     overdue |-> NotReached, penalty |-> NotReached,
     overdue_count |-> 0, penalty_count |-> 0, skipped_count |-> 0,
     outbox |-> <<>>, tried |-> <<>>, due_list |-> <<>>, document |-> NoDocuments,
     success |-> {}, success_count |-> 0, overdue_notifications |-> {},
     payment_reminders |-> {}, due_date_reminders |-> {}, exit_code |-> 0,
     predicates |-> OriginalPredicates]

NoBatch(ls) ==
    [out |-> NotReached, loans |-> ls, penalty_count |-> 0, skipped_count |-> 0]

\* if test_mode or is_3rd_of_month():
penalties_due(test_mode, now) == test_mode \/ is_3rd_of_month(now)

notices_due_always(overdue_count, test_mode) == TRUE

\* if overdue_count > 0 or test_mode:
notices_due(overdue_count, test_mode) == overdue_count > 0 \/ test_mode

\* what main leaves behind: u and p are the results of the overdue transition
\* and of the penalties, n, r22 and r28 the emails of the overdue notices and
\* of the two reminders, list the loans due next month, st their statements
main_result(u, p, n, r22, r28, list, st, admin, test_mode, now, ls) ==
    [Quiet("main", ls) EXCEPT
        !.loans = p.loans,
        !.mid   = u.loans,
        !.steps = <<"overdue">>
                  \o (IF penalties_due(test_mode, now) THEN <<"penalties">> ELSE <<>>)
                  \o (IF notices_due(u.count, test_mode)
                      THEN <<"overdue_notices">> ELSE <<>>)
                  \o (IF test_mode \/ is_22nd_of_month(now)
                      THEN <<"payment_reminders">> ELSE <<>>)
                  \o (IF test_mode \/ is_28th_of_month(now)
                      THEN <<"due_date_reminders">> ELSE <<>>)
                  \o (IF test_mode \/ is_22nd_of_month(now)
                      THEN <<"statements">> ELSE <<>>),
        !.overdue = u.out,
        !.penalty = p.out,
        !.overdue_count = u.count,
        !.penalty_count = p.penalty_count,
        !.skipped_count = p.skipped_count,
        !.outbox  = n.emails \o r22.emails \o r28.emails \o st.emails \o admin.emails,
        !.tried   = n.tried \o r22.tried \o r28.tried \o st.tried \o admin.tried,
        !.due_list = list,
        !.document = [l \in LoanIds |->
                        IF \E i \in DOMAIN list : list[i] = l
                        THEN document_type(p.loans[l]) ELSE "none"],
        !.success = st.counted,
        !.success_count = st.count,
        !.overdue_notifications = n.counted,
        !.payment_reminders = r22.counted,
        !.due_date_reminders = r28.counted]

\* main from the statement loop on: the loop over the loans due next month
\* and the admin summary
main_statements(u, p, n, r22, r28, list, test_mode, send_emails, send_admin_summary_email, ls, cl, now, fault) ==
    main_result(u, p, n, r22, r28, list,
                send_statements(list, p.loans, cl, send_emails, fault),
                IF send_emails /\ send_admin_summary_email
                THEN send_admin("admin_summary", fault) ELSE NoAdmin,
                test_mode, now, ls)

\* main from the overdue notices on
main_notifications(u, p, test_mode, send_emails, send_admin_summary_email, ls, cl, now, fault) ==
    main_statements(u, p,
        IF notices_due(u.count, test_mode)
        THEN notify_overdue_loans(send_emails, p.loans, cl, fault) ELSE NoMails,
        IF test_mode \/ is_22nd_of_month(now)
        THEN send_payment_reminders(send_emails, FALSE, p.loans, cl, now, fault)
        ELSE NoMails,
        IF test_mode \/ is_28th_of_month(now)
        THEN send_due_date_reminders(send_emails, FALSE, p.loans, cl, now, fault)
        ELSE NoMails,
        IF test_mode \/ is_22nd_of_month(now)
        THEN get_loans_due_next_month(p.loans, cl, now, fault) ELSE <<>>,
        test_mode, send_emails, send_admin_summary_email, ls, cl, now, fault)

loans_before_transition(u, ls) == ls

\* the table apply_penalties_to_overdue_loans queries: main calls it after
\* update_overdue_loans has returned
loans_after_transition(u, ls) == u.loans

\* main from the penalties on
main_penalties(u, test_mode, send_emails, send_admin_summary_email, ls, pays, cl, now, fault) ==
    main_notifications(u,
        IF penalties_due(test_mode, now)
        THEN apply_penalties_to_overdue_loans(test_mode, loans_after_transition(u, ls),
                                              pays, now, fault)
        ELSE NoBatch(u.loans),
        test_mode, send_emails, send_admin_summary_email, ls, cl, now, fault)

\* the outer except clause of main: the error notification to the admin
main_failed(ls, admin) ==
    [Quiet("main", ls) EXCEPT
        !.steps = <<"failed">>, !.outbox = admin.emails, !.tried = admin.tried]

main(test_mode, send_emails, send_admin_summary_email, ls, pays, cl, now, fault) ==
    IF ~direct_call_ok("main.connection_test", fault)
    THEN \* ConnectionError, caught by the outer except of main
         main_failed(ls, IF send_emails /\ send_admin_summary_email
                         THEN send_admin("admin_error", fault) ELSE NoAdmin)
    ELSE main_penalties(update_overdue_loans(ls, pays, now, fault),
                        test_mode, send_emails, send_admin_summary_email,
                        ls, pays, cl, now, fault)

NoArgs ==
    [test |-> FALSE, no_send |-> FALSE, admin_summary |-> FALSE,
     apply_penalties |-> FALSE, payment_reminders |-> FALSE,
     due_date_reminders |-> FALSE, check_db |-> FALSE]

\* run_cli after --apply-penalties, and after one of the reminder flags
penalties_only(ls, p) ==
    [Quiet("apply_penalties", ls) EXCEPT
        !.loans = p.loans,
        !.steps = <<"penalties">>,
        !.penalty = p.out,
        !.penalty_count = p.penalty_count,
        !.skipped_count = p.skipped_count]

reminders_only(op, ls, r) ==
    [Quiet(op, ls) EXCEPT
        !.steps = <<op>>, !.outbox = r.emails, !.tried = r.tried,
        !.success = r.counted, !.success_count = r.count,
        !.payment_reminders = IF op = "payment_reminders" THEN r.counted ELSE {},
        !.due_date_reminders = IF op = "due_date_reminders" THEN r.counted ELSE {},
        !.predicates = finally_restored(patched(OriginalPredicates, op),
                                        OriginalPredicates)]

\* run_cli after the initial check_database_connection returned False
db_down(ls, admin) ==
    [Quiet("db_down", ls) EXCEPT
        !.exit_code = 1, !.outbox = admin.emails, !.tried = admin.tried]

send_emails_always(args) == TRUE

\* send_emails = True if args.test else not args.no_send
send_emails_of(args) == IF args.test THEN TRUE ELSE ~args.no_send

run_cli(args, ls, pays, cl, now, fault) ==
    IF args.check_db
    THEN [Quiet("check_db", ls) EXCEPT
            !.exit_code = IF call_ok("check_database_connection", 0, fault)
                          THEN 0 ELSE 1]
    ELSE IF ~call_ok("check_database_connection", 0, fault)
    THEN db_down(ls, IF ~args.no_send THEN send_admin("admin_error", fault)
                     ELSE NoAdmin)
    ELSE IF args.apply_penalties
    THEN penalties_only(ls, apply_penalties_to_overdue_loans(TRUE, ls, pays, now, fault))
    ELSE IF args.payment_reminders
    THEN reminders_only("payment_reminders", ls,
            send_payment_reminders(send_emails_of(args), TRUE, ls, cl, now, fault))
    ELSE IF args.due_date_reminders
    THEN reminders_only("due_date_reminders", ls,
            send_due_date_reminders(send_emails_of(args), TRUE, ls, cl, now, fault))
    ELSE main(args.test, send_emails_of(args), args.admin_summary,
              ls, pays, cl, now, fault)

(***************************************************************************)
(* The exceptions the two batches and the overdue notices catch.  An event *)
(* is [handler, loan, logged]: logged tells whether the handler writes a   *)
(* log entry before processing continues.                                  *)
(***************************************************************************)
Caught(handler, l, logged) == [handler |-> handler, loan |-> l, logged |-> logged]

Range(s) == {s[i] : i \in DOMAIN s}

\* the payment loop of update_overdue_loans is entered for the loan
overdue_payments_read(ln, l, fault) ==
    /\ ln.payment_due_date # None /\ ln.loan_amount # None
    /\ ln.due_format = "iso"
    /\ ln.loan_amount # Unparseable
    /\ call_ok("overdue.query_payments", l, fault)

\* update_overdue_loans: every handler of the loop logs (logging.warning or
\* logging.error), the one of float(payment['amount']) included
overdue_caught(ls, pays, now, fault, out) ==
    {Caught("overdue.loan", l, TRUE) : l \in {k \in LoanIds : out[k] = "error"}}
    \cup {Caught("overdue.payment_amount", l, TRUE) :
            l \in {k \in LoanIds :
                    /\ out[k] # "none"
                    /\ overdue_payments_read(ls[k], k, fault)
                    /\ \E p \in Range(query_payments(pays, k, now)) : p.amount < 0}}

\* the payment loop of apply_penalties_to_overdue_loans is entered for the loan
penalty_payments_read(ln, l, fault) ==
    /\ ln.payment_due_date # None /\ ln.loan_amount # None
    /\ ln.remaining_balance # None
    /\ ln.due_format = "iso"
    /\ ln.loan_amount # Unparseable
    /\ call_ok("penalty.query_payments", l, fault)

\* apply_penalties_to_overdue_loans: the handlers of the loop log; within the
\* payment loop the handler of float(payment['amount']) logs a warning, and
\* the one of datetime.fromisoformat(payment['payment_date']...), reached
\* after the amount was added, is "except (ValueError, TypeError): pass"
penalty_caught(ls, pays, now, fault, out) ==
    {Caught("penalty.loan", l, TRUE) : l \in {k \in LoanIds : out[k] = "error"}}
    \cup {Caught("penalty.payment_amount", l, TRUE) :
            l \in {k \in LoanIds :
                    /\ out[k] # "none"
                    /\ penalty_payments_read(ls[k], k, fault)
                    /\ \E p \in Range(query_payments(pays, k, now)) : p.amount < 0}}
    \cup {Caught("penalty.payment_date", l, FALSE) :
            l \in {k \in LoanIds :
                    /\ out[k] # "none"
                    /\ penalty_payments_read(ls[k], k, fault)
                    /\ \E p \in Range(query_payments(pays, k, now)) :
                          p.amount >= 0 /\ p.date_format # "iso"}}

\* notify_overdue_loans: float(loan.get('penalties', 0)) in a try block whose
\* handler sets has_penalties = False and writes nothing
notice_caught(ls, cl, fault) ==
    {Caught("notice.penalties", l, FALSE) :
        l \in {k \in LoanIds :
                /\ call_ok("notify.query_overdue_loans", 0, fault)
                /\ \E i \in DOMAIN query_overdue(ls) : query_overdue(ls)[i] = k
                /\ ls[k].invoice_number # None /\ ls[k].loan_amount # None
                /\ ls[k].remaining_balance # None /\ ls[k].client_id # None
                /\ call_ok("notify.get_client_info", k, fault)
                /\ has_email(ls[k], cl)
                /\ ls[k].penalties < 0}}

\* the exceptions caught during the invocation that turned the loans pre
\* into the result r
caught_exceptions(pre, r, pays, cl, now, fault) ==
    overdue_caught(pre, pays, now, fault, r.overdue)
    \cup penalty_caught(r.mid, pays, now, fault, r.penalty)
    \cup (IF \E i \in DOMAIN r.steps : r.steps[i] = "overdue_notices"
          THEN notice_caught(r.loans, cl, fault) ELSE {})

(***************************************************************************)
(* The due dates presented.  get_loans_due_next_month and                  *)
(* notify_overdue_loans store the normalized date in the loan they hand to *)
(* create_invoice_email, which normalizes the date it is given once more   *)
(* and formats the result.                                                 *)
(***************************************************************************)
NoDate == [stored |-> None, shown |-> None, amount |-> None]

\* base_payment = round(float(loan['loan_amount']) / 3, 2), in cents
base_payment(ln) == expected_cents(ln.loan_amount)

\* cents of round(x, 2) for x = n / 1000 cents; the amounts of the model give
\* no n half a cent away from a cent
round_thousandths(n) == (2 * n + 1000) \div 2000

\* missed_payment_amount + penalty_amount = penalties * base_payment * 1.1, in
\* cents, for penalties of p cents and a base payment of b cents: 11 * p * b
\* / 1000, multiplied limb by limb to stay within the integers of the checker
missed_and_penalty(p, b) ==
    LET q == p \div 1000
        r == p % 1000
        c == b \div 1000
        d == b % 1000
    IN  11 * (1000 * q * c + q * d + r * c) + round_thousandths(11 * r * d)

\* payment_amount = round(base_payment + missed_payment_amount + penalty_amount, 2)
\* if penalties > 0, else base_payment
payment_amount(ln) ==
    IF ln.penalties > 0
    THEN base_payment(ln) + missed_and_penalty(ln.penalties, base_payment(ln))
    ELSE base_payment(ln)

payment_amount_shown_without_penalties(ln) == base_payment(ln)

\* the 'Payment Amount' field: base_payment if penalties == 0 else payment_amount
payment_amount_shown(ln) ==
    IF ln.penalties = 0 THEN base_payment(ln) ELSE payment_amount(ln)

\* now + timedelta(days=n)
RECURSIVE plus_days(_, _)
plus_days(dt, n) ==
    IF n = 0 THEN dt
    ELSE plus_days(IF DayOf(dt) < last_day_of_month(YearOf(dt), MonthOf(dt))
                   THEN dt + 1 ELSE next_month_start(dt), n - 1)

\* loan['payment_due_date'] as the loop stores it: the normalized date, or in
\* notify_overdue_loans now + 28 days for a date that does not parse
stored_due_date(ln, now) ==
    IF ln.due_format = "iso" THEN normalize_due_date(ln.payment_due_date)
    ELSE plus_days(now, 28)

presented(ln, now) ==
    [stored |-> stored_due_date(ln, now),
     shown  |-> normalize_due_date(stored_due_date(ln, now)),
     amount |-> payment_amount_shown(ln)]

\* the due dates in the statements and overdue notices of the run with result r
presented_due_dates(r, now) ==
    [l \in LoanIds |->
        IF (\E i \in DOMAIN r.due_list : r.due_list[i] = l)
           \/ l \in r.overdue_notifications
        THEN presented(r.loans[l], now) ELSE NoDate]

(***************************************************************************)
(* The urgency of the due-date reminders.                                  *)
(***************************************************************************)
\* (due_date.date() - now.date()).days for a due date from now to the start
\* of the next month
days_between(now, due) == CHOOSE n \in 0 .. 31 : plus_days(now, n) = due

\* days_until_due: 3 ("Default assumption") for a due date that does not parse
days_until_due(ln, now) ==
    IF ln.due_format = "iso" THEN days_between(now, ln.payment_due_date) ELSE 3

urgency_within_two_days(days) == IF days <= 2 THEN "urgent" ELSE "normal"

\* if days_until_due <= 1: red, "URGENT: PAYMENT DUE ..."; else orange
urgency(days) == IF days <= 1 THEN "urgent" ELSE "normal"

\* the urgency of the reminders of the run with result r
reminder_urgency(r, now) ==
    [l \in LoanIds |->
        IF l \in r.due_date_reminders
        THEN urgency(days_until_due(r.loans[l], now)) ELSE "none"]

(***************************************************************************)
(* The state machine: the external loan-origination process records        *)
(* payments, the calendar advances, the scheduler invokes the engine.      *)
(***************************************************************************)
Loan(st, amount, balance, pen, due) ==
    [status |-> st, loan_amount |-> amount, remaining_balance |-> balance,
     penalties |-> pen, payment_due_date |-> due, due_format |-> "iso",
     client_id |-> 1, license_id |-> None, start_date |-> Date(2024, 9, 15),
     weapon_cost |-> 1200000, invoice_number |-> 1001]

PastDue  == Date(2024, 11, 28)
NextDue  == Date(2025, 1, 28)

\* the loans of the store: loan 1 is the loan whose client pays during the
\* month; the other loans receive no payment
LoanKinds(l) ==
    IF l = 1
    THEN { Loan("active",  900000,  75000, 0, PastDue),
           Loan("active",  500000, 500000, 0, PastDue),
           Loan("overdue", 500000, 500000, 0, PastDue) }
    ELSE IF l = 2
    THEN { Loan("paid",    900000,      0, 0, PastDue) }
    ELSE { Loan("active",  900000, 900000, 0, NextDue) }

PayingLoans == {1}

ClientTable  == (1 :> [email |-> "client1@example.com"]) @@ (2 :> [email |-> ""])
LicenceTable == (1 :> [make |-> "make", serial_number |-> "sn"])

\* amounts of the payments recorded, in cents
PaymentAmounts == {300000, 141159, 25508}

NoRun == Quiet("none", <<>>)

\* no invocation since the last step of the environment
NoPrior == [pre |-> <<>>, penalty |-> NotReached]

Idle == [r |-> NoRun, args |-> NoArgs, pre |-> <<>>, prior |-> NoPrior, log |-> {},
         shown |-> [l \in LoanIds |-> NoDate],
         urgency |-> [l \in LoanIds |-> "none"]]

NoCall == [script |-> <<>>, retried |-> {}, status |-> "none", calls |-> 0, sleeps |-> 0]

\* no run is being followed
NoProc == [pc |-> "idle", loop |-> 1, todo |-> <<>>, op |-> 0, retries |-> 0,
           failed |-> FALSE]

TypeOK ==
    /\ today \in 1 .. Len(Timeline)
    /\ runs \in 0 .. MaxRuns
    /\ Len(payments) <= MaxPayments

\* the tables of the store: every loan of one of its kinds
LoanTables ==
    {t \in [LoanIds -> UNION {LoanKinds(l) : l \in LoanIds}] :
        \A l \in LoanIds : t[l] \in LoanKinds(l)}

InitStore(tables, faults) ==
    /\ loans \in tables
    /\ payments = <<>>
    /\ clients = ClientTable
    /\ licences = LicenceTable
    /\ today = 1
    /\ runs = 0
    /\ outage \in faults
    /\ last = Idle
    /\ rcall = NoCall
    /\ proc = NoProc

Init == InitStore(LoanTables, {NoFault})

\* the calendar advances to the next date
Tick ==
    /\ today < Len(Timeline)
    /\ today' = today + 1
    /\ last' = Idle
    /\ UNCHANGED <<loans, payments, clients, licences, runs, outage, rcall, proc>>

\* the external process records a payment of `amount` for loan l, dated today
RecordPayment(l, amount) ==
    /\ Len(payments) < MaxPayments
    /\ payments' = Append(payments,
                          [loan_id |-> l, payment_date |-> Now, amount |-> amount,
                           date_format |-> "iso"])
    /\ last' = Idle
    /\ UNCHANGED <<loans, clients, licences, today, runs, outage, rcall, proc>>

\* the invocation with result r is recorded
Invoked(args, r) ==
    /\ loans' = r.loans
    /\ last' = [r |-> r, args |-> args, pre |-> loans,
                prior |-> [pre |-> last.pre, penalty |-> last.r.penalty],
                log |-> caught_exceptions(loans, r, payments, clients, Now, outage),
                shown |-> presented_due_dates(r, Now),
                urgency |-> reminder_urgency(r, Now)]

\* one invocation of the script: run_cli with the parsed arguments
RunCli(args) ==
    /\ runs < MaxRuns
    /\ Invoked(args, run_cli(args, loans, payments, clients, Now, outage))
    /\ runs' = runs + 1
    /\ UNCHANGED <<payments, clients, licences, today, outage, rcall, proc>>

\* the invocations of the scheduler and the operator: the daily run, the run
\* with --test, and the manual penalty application
BatchArgs ==
    { NoArgs, [NoArgs EXCEPT !.test = TRUE],
      [NoArgs EXCEPT !.apply_penalties = TRUE] }

Next ==
    \/ Tick
    \/ \E l \in PayingLoans, a \in PaymentAmounts : RecordPayment(l, a)
    \/ \E args \in BatchArgs : RunCli(args)

Spec == Init /\ [][Next]_vars

(***************************************************************************)
(* Runs under an outage: the store holds loans with malformed fields, and  *)
(* one call site fails for loan 1 during the whole behaviour.              *)
(***************************************************************************)
Licensed(ln) == [ln EXCEPT !.license_id = 1]

FaultKinds(l) ==
    IF l = 1
    THEN { Licensed(Loan("active", 500000, 500000, 0, PastDue)),
           [Loan("active", 500000, 500000, 0, PastDue) EXCEPT !.due_format = "text"],
           Loan("active", Unparseable, 500000, 0, PastDue),
           Loan("overdue", 500000, None, 0, PastDue),
           Licensed(Loan("active", 500000, 500000, 0, NextDue)),
           [Loan("active", 500000, 500000, 0, NextDue) EXCEPT !.due_format = "text"] }
    ELSE IF l = 2
    THEN { Loan("active", 900000, 900000, 0, PastDue),
           Loan("active", 900000, 900000, 0, NextDue) }
    ELSE { Loan("paid", 900000, 0, 0, PastDue) }

\* both loans fall due on the same day
FaultTables ==
    {t \in [LoanIds -> UNION {FaultKinds(l) : l \in LoanIds}] :
        /\ \A l \in LoanIds : t[l] \in FaultKinds(l)
        /\ t[1].payment_due_date = t[2].payment_due_date}

Faults ==
    {NoFault}
    \cup [site : LoanSites, loans : {{1}}, kind : {"down", "flaky"}]
    \cup [site : BatchSites, loans : {{}}, kind : {"down"}]
    \cup [site : {"due.query_client", "overdue.update_loan_status",
                   "penalty.update_loan_penalty"}, loans : {{1}}, kind : {"empty"}]

InitFaults == InitStore(FaultTables, Faults)

FaultArgs == { NoArgs, [NoArgs EXCEPT !.test = TRUE] }

NextFaults ==
    \/ Tick
    \/ \E args \in FaultArgs : RunCli(args)

SpecFaults == InitFaults /\ [][NextFaults]_vars

(***************************************************************************)
(* Runs under every combination of the command-line flags, one a day, on   *)
(* a store without payments; the database or the SMTP server may be        *)
(* unreachable.                                                            *)
(***************************************************************************)
SoonDue == Date(2024, 12, 30)

\* the loan belongs to the client without an email address
OfClient2(ln) == [ln EXCEPT !.client_id = 2]

FlagKinds(l) ==
    IF l = 1
    THEN { Loan("active",  900000,  75000, 0, NextDue),
           Loan("active",  900000,      0, 0, NextDue),
           Loan("active",  500000, 500000, 0, PastDue),
           Loan("overdue", 500000, 500000, 0, PastDue) }
    ELSE IF l = 2
    THEN { OfClient2(Loan("overdue", 900000, 900000, 0, PastDue)),
           Loan("active",  900000, 900000, 0, SoonDue),
           Loan("active",  900000, 900000, 0, NextDue) }
    ELSE { Loan("paid", 900000, 0, 0, PastDue) }

FlagTables ==
    {t \in [LoanIds -> UNION {FlagKinds(l) : l \in LoanIds}] :
        \A l \in LoanIds : t[l] \in FlagKinds(l)}

FlagFaults ==
    {NoFault}
    \cup [site : {"network", "network.late"}, loans : {LoanIds}, kind : {"down"}]
    \cup [site : {"check_database_connection", "main.connection_test", "smtp.admin"},
          loans : {{}}, kind : {"down"}]

InitFlags == InitStore(FlagTables, FlagFaults)

\* every combination of the flags of the argument parser
AllArgs ==
    [test : BOOLEAN, no_send : BOOLEAN, admin_summary : BOOLEAN,
     apply_penalties : BOOLEAN, payment_reminders : BOOLEAN,
     due_date_reminders : BOOLEAN, check_db : BOOLEAN]

\* the first invocation of the day
RunOnce(args) == last = Idle /\ RunCli(args)

NextFlags ==
    \/ Tick
    \/ \E args \in AllArgs : RunOnce(args)

SpecFlags == InitFlags /\ [][NextFlags]_vars

(***************************************************************************)
(* The retry wrapper on its own: one call whose attempts end as the script *)
(* says.                                                                   *)
(***************************************************************************)
Called(script, exceptions_to_retry, res) ==
    rcall' = [script |-> script, retried |-> exceptions_to_retry,
              status |-> res.status, calls |-> res.calls, sleeps |-> res.sleeps]

RetryCall(script, exceptions_to_retry) ==
    /\ rcall = NoCall
    /\ Called(script, exceptions_to_retry,
              retry_with_backoff(script, max_retries, exceptions_to_retry))
    /\ UNCHANGED <<loans, payments, clients, licences, today, runs, outage, last, proc>>

NextRetry ==
    \E script \in [1 .. ScriptLen -> Outcomes],
       exceptions_to_retry \in {AnyException, SmtpExceptions} :
          RetryCall(script, exceptions_to_retry)

SpecRetry == Init /\ [][NextRetry]_vars


(***************************************************************************)
(* What the specification says, stated over the latest invocation.         *)
(***************************************************************************)
\* the latest step was an invocation of the script
Ran == last.r.op # "none"

\* the latest invocation ran the step named
Did(step) == \E i \in DOMAIN last.r.steps : last.r.steps[i] = step

\* the decimal sum, in cents, of the amounts of the payments ps
RECURSIVE cents_paid(_)
cents_paid(ps) ==
    IF ps = <<>> THEN 0
    ELSE (IF Head(ps).amount < 0 THEN 0 ELSE Head(ps).amount) + cents_paid(Tail(ps))

\* the payments of loan l recorded this month, summed as decimal amounts
paid_this_month(l) == cents_paid(query_payments(payments, l, Now))

\* the loan has a due date and a loan amount that parse
valid_loan(ln) ==
    /\ ln.payment_due_date # None
    /\ ln.due_format = "iso"
    /\ ln.loan_amount \notin {None, Unparseable}

\* status and penalties apart, the two records are the same
same_but_status_and_penalties(a, b) ==
    [a EXCEPT !.status = b.status, !.penalties = b.penalties] = b

\* C1: in the overdue transition, every active loan past its due date with a
\* valid due date and loan amount is set to overdue if and only if the sum of
\* its payments of this month is below round(loan_amount / 3, 2); a sum equal
\* to the expected payment leaves it active.
C1_OverdueIffBelowExpected ==
    Did("overdue") =>
        \A l \in LoanIds :
            ( /\ last.pre[l].status = "active"
              /\ valid_loan(last.pre[l])
              /\ last.pre[l].payment_due_date < Now )
            => ( last.r.mid[l].status = "overdue"
                 <=> paid_this_month(l) < expected_cents(last.pre[l].loan_amount) )

\* C2: no step ever changes a loan's status except from active to overdue: an
\* overdue loan stays overdue whatever is paid, a paid loan is never changed.
C2_StatusOnlySetToOverdue ==
    [][\A l \in LoanIds :
          loans'[l].status # loans[l].status
          => (loans[l].status = "active" /\ loans'[l].status = "overdue")]_vars

\* an overdue loan with sufficient payments went through a penalty run and is
\* still overdue, next to a paid loan that is still paid
C2_Witness ==
    /\ Did("overdue") /\ Did("penalties")
    /\ \E l \in LoanIds : /\ last.pre[l].status = "overdue"
                          /\ last.r.penalty[l] = "skipped"
                          /\ paid_this_month(l) >= expected_cents(loans[l].loan_amount)
                          /\ loans[l].status = "overdue"
    /\ \E k \in LoanIds : last.pre[k].status = "paid" /\ loans[k].status = "paid"

C4_PenaltyIffBelowExpected ==
    Did("penalties") =>
        \A l \in LoanIds :
            ( /\ last.r.mid[l].status = "overdue"
              /\ valid_loan(last.r.mid[l])
              /\ last.r.mid[l].remaining_balance \notin {None, Unparseable} )
            => loans[l].penalties =
                 IF paid_this_month(l) < expected_cents(loans[l].loan_amount)
                 THEN last.r.mid[l].penalties + new_penalty(loans[l].loan_amount)
                 ELSE last.r.mid[l].penalties

\* C5: on a day other than the 3rd and without --test or --apply-penalties the
\* penalty application reports (0, 0) and no loan's penalties change.
C5_PenaltiesOnlyOnThirdOrBypass ==
    ( /\ Ran
      /\ DayOf(Now) # PenaltyDay
      /\ ~last.args.test /\ ~last.args.apply_penalties )
    => /\ last.r.penalty_count = 0 /\ last.r.skipped_count = 0
       /\ \A l \in LoanIds : loans[l].penalties = last.pre[l].penalties

\* a daily run off the 3rd left an overdue loan without payments unpenalised
C5_Witness ==
    /\ last.r.op = "main" /\ ~last.args.test
    /\ DayOf(Now) # PenaltyDay
    /\ \E l \in LoanIds : /\ loans[l].status = "overdue"
                          /\ paid_this_month(l) = 0
                          /\ loans[l].penalties = last.pre[l].penalties

\* C6: a penalty application that directly follows one that penalised a loan,
\* with no payment and no change of date in between, penalises it again: the
\* penalties end at twice round(loan_amount * 0.10, 2) above where they were.
C6_PenaltyNotIdempotent ==
    \A l \in LoanIds :
        (last.prior.penalty[l] = "penalised" /\ Did("penalties"))
        => loans[l].penalties
             = last.prior.pre[l].penalties + 2 * new_penalty(loans[l].loan_amount)

\* a loan penalised by two runs in a row
C6_Witness ==
    \E l \in LoanIds :
        /\ last.prior.penalty[l] = "penalised"
        /\ last.r.penalty[l] = "penalised"
        /\ last.prior.pre[l].penalties = 0
        /\ loans[l].penalties = 2 * new_penalty(loans[l].loan_amount)
        /\ loans[l].penalties > 0

\* C7: the penalties of every loan are never negative and never lower than in
\* an earlier state.
C7_PenaltiesNeverDecrease ==
    /\ [](\A l \in LoanIds : loans[l].penalties >= 0)
    /\ [][\A l \in LoanIds : loans'[l].penalties >= loans[l].penalties]_vars

\* a penalised loan whose payments have become sufficient keeps its penalties
C7_Witness ==
    \E l \in LoanIds :
        /\ last.r.penalty[l] = "skipped"
        /\ last.pre[l].penalties > 0
        /\ loans[l].penalties = last.pre[l].penalties

\* C8: a loan on which the overdue batch or the penalty batch fails keeps its
\* status and penalties, and every other loan of the query is still evaluated
\* and, when it qualifies, mutated.
C8_BatchContinuesOnError ==
    /\ \A l \in LoanIds :
          last.r.overdue[l] = "error" =>
            /\ last.r.mid[l] = last.pre[l]
            /\ \A k \in LoanIds \ {l} :
                  (last.pre[k].status = "active" /\ last.pre[k].payment_due_date < Now)
                  => /\ last.r.overdue[k] # "none"
                     /\ ( /\ valid_loan(last.pre[k]) /\ k \notin outage.loans
                          /\ paid_this_month(k) < expected_cents(last.pre[k].loan_amount) )
                        => last.r.mid[k].status = "overdue"
    /\ \A l \in LoanIds :
          last.r.penalty[l] = "error" =>
            /\ loans[l] = last.r.mid[l]
            /\ \A k \in LoanIds \ {l} :
                  last.r.mid[k].status = "overdue"
                  => /\ last.r.penalty[k] # "none"
                     /\ ( /\ valid_loan(last.r.mid[k]) /\ k \notin outage.loans
                          /\ last.r.mid[k].remaining_balance \notin {None, Unparseable}
                          /\ paid_this_month(k) < expected_cents(loans[k].loan_amount) )
                        => loans[k].penalties
                             = last.r.mid[k].penalties + new_penalty(loans[k].loan_amount)

\* the overdue batch failed on a loan and marked a later loan overdue
C8_Witness ==
    \E l, k \in LoanIds :
        /\ l < k
        /\ last.r.overdue[l] = "error" /\ loans[l] = last.pre[l]
        /\ last.pre[k].status = "active" /\ last.r.mid[k].status = "overdue"

\* the penalty batch failed on a loan and penalised a later loan
PenaltyBatchContinued ==
    \E l, k \in LoanIds :
        /\ l < k
        /\ last.r.penalty[l] = "error" /\ loans[l] = last.pre[l]
        /\ last.r.penalty[k] = "penalised"
        /\ loans[k].penalties > last.r.mid[k].penalties

\* the loan is active and due next month, as get_loans_due_next_month asks
due_next_month(ln) ==
    /\ ln.status = "active"
    /\ ln.payment_due_date # None
    /\ ln.payment_due_date >= next_month_start(Now)
    /\ ln.payment_due_date <= next_month_end(Now)

\* nothing fails for the loan: its fields parse, its client has an email and
\* no call made for it meets the outage
nothing_fails_for(l) ==
    /\ valid_loan(loans[l])
    /\ loans[l].remaining_balance \notin {None, Unparseable}
    /\ has_email(loans[l], clients)
    /\ l \notin outage.loans

\* the client of loan l was sent an email of one of the kinds
notified(l, kinds) ==
    \E i \in DOMAIN last.r.outbox :
        /\ last.r.outbox[i].loan = l
        /\ last.r.outbox[i].to = "client"
        /\ last.r.outbox[i].kind \in kinds

\* C9: in the statement and payment-reminder path a failure on one loan skips
\* that loan only: every other loan due next month is still notified.
C9_OtherLoansStillNotified ==
    (Did("statements") /\ outage.site \in LoanSites \cup {"none"}) =>
        \A k \in LoanIds :
            (due_next_month(loans[k]) /\ nothing_fails_for(k))
            => /\ notified(k, {"statement", "invoice"})
               /\ is_22nd_of_month(Now) => notified(k, {"payment_reminder"})

\* the same, for the failures inside the per-loan loop (rendering, sending)
LoopFailuresSkipOneLoan ==
    ( /\ Did("statements")
      /\ outage.site \in {"none", "create_invoice_email", "smtp.client", "smtp.copy"}
      /\ \A l \in LoanIds : due_next_month(loans[l]) => loans[l].due_format = "iso" )
    => \A k \in LoanIds :
            (due_next_month(loans[k]) /\ nothing_fails_for(k))
            => /\ notified(k, {"statement", "invoice"})
               /\ is_22nd_of_month(Now) => notified(k, {"payment_reminder"})

\* C10: retry_with_backoff with max_retries = 3 makes at most 3 attempts, stops
\* at the first attempt that succeeds and returns, and raises when every
\* attempt has failed.
C10_RetryAtMostThreeAttempts ==
    rcall.status # "none" =>
        LET fails(i) == rcall.script[i] # "ok"
        IN  /\ rcall.calls \in 1 .. max_retries
            /\ rcall.status = "returned"
               => /\ ~fails(rcall.calls)
                  /\ \A i \in 1 .. rcall.calls - 1 : fails(i)
            /\ (\A i \in 1 .. max_retries : fails(i)) => rcall.status = "raised"
            /\ \A i \in 1 .. max_retries :
                  ( /\ ~fails(i)
                    /\ \A j \in 1 .. i - 1 : rcall.script[j] \in rcall.retried )
                  => (rcall.status = "returned" /\ rcall.calls = i)

\* three attempts failed and the error was raised
C10_Witness ==
    /\ rcall.status = "raised" /\ rcall.calls = max_retries
    /\ \A i \in 1 .. max_retries : rcall.script[i] = "transient"

\* C11: a remote call is retried only after a transient transport or timeout
\* error: every attempt that was followed by another attempt had failed with a
\* transient error, and a call whose first attempt fails in any other way is
\* raised to the caller after that one attempt, without a backoff wait.
C11_RetryOnlyOnTransient ==
    rcall.status # "none" =>
        /\ \A i \in 1 .. rcall.calls - 1 : rcall.script[i] = "transient"
        /\ rcall.script[1] = "other"
           => (rcall.status = "raised" /\ rcall.calls = 1 /\ rcall.sleeps = 0)

\* the same for the SMTP conversation of send_email alone, which names the
\* exceptions it retries on
SmtpRetriesOnlyOnTransient ==
    rcall.retried = SmtpExceptions => C11_RetryOnlyOnTransient

\* the latest invocation was main, and its connection test passed
MainRan == last.r.op = "main" /\ ~Did("failed")

\* every loan due next month has a due date that parses: the list of
\* get_loans_due_next_month is built
due_list_built ==
    \A l \in LoanIds : due_next_month(loans[l]) => loans[l].due_format = "iso"

\* the loan is active and due between today and the first of next month, as
\* send_due_date_reminders asks
due_soon(ln) ==
    /\ ln.status = "active"
    /\ ln.payment_due_date # None
    /\ ln.payment_due_date >= Now
    /\ ln.payment_due_date <= next_month_start(Now)

\* C12: with --test every date gate is bypassed: on any day the run applies
\* penalties, sends payment reminders, due-date reminders, overdue notices and
\* statements or paid invoices, each to every loan that qualifies for it.
C12_TestBypassesAllGates ==
    (MainRan /\ last.args.test /\ outage.site = "none" /\ due_list_built) =>
        /\ Did("penalties") /\ Did("overdue_notices") /\ Did("statements")
        /\ \A k \in LoanIds :
              nothing_fails_for(k) =>
                 /\ loans[k].status = "overdue"
                    => (last.r.penalty[k] # "none" /\ notified(k, {"overdue_notice"}))
                 /\ due_next_month(loans[k])
                    => /\ notified(k, {"statement", "invoice"})
                       /\ notified(k, {"payment_reminder"})
                 /\ due_soon(loans[k]) => notified(k, {"due_date_reminder"})

\* the gates main itself tests are bypassed by --test: penalties, overdue
\* notices and statements reach their loans on any day, and the reminders do
\* on their own day
TestBypassesGatesOfMain ==
    (MainRan /\ last.args.test /\ outage.site = "none" /\ due_list_built) =>
        /\ Did("penalties") /\ Did("overdue_notices") /\ Did("statements")
        /\ \A k \in LoanIds :
              nothing_fails_for(k) =>
                 /\ loans[k].status = "overdue"
                    => (last.r.penalty[k] # "none" /\ notified(k, {"overdue_notice"}))
                 /\ due_next_month(loans[k])
                    => /\ notified(k, {"statement", "invoice"})
                       /\ is_22nd_of_month(Now) => notified(k, {"payment_reminder"})
                 /\ (due_soon(loans[k]) /\ is_28th_of_month(Now))
                    => notified(k, {"due_date_reminder"})

\* a run with --test on a day that is neither the 22nd nor the 28th sent
\* statements and no reminder of either kind
TestRunOffDay ==
    /\ MainRan /\ last.args.test
    /\ ~is_22nd_of_month(Now) /\ ~is_28th_of_month(Now)
    /\ \E k \in LoanIds : due_soon(loans[k]) /\ nothing_fails_for(k)
    /\ \A i \in DOMAIN last.r.outbox :
          last.r.outbox[i].kind \notin {"payment_reminder", "due_date_reminder"}

\* send_email was called with an email of one of the kinds
tried_any(kinds) ==
    \E i \in DOMAIN last.r.tried : last.r.tried[i].kind \in kinds

\* C13: when a date guard fails and no bypass is set, nothing is emitted for
\* that class: on a day other than the 22nd no statement, paid invoice or
\* payment reminder is sent or counted, and on a day other than the 28th no
\* due-date reminder.
C13_NothingSentOffDay ==
    Ran =>
        /\ (DayOf(Now) # PaymentReminderDay /\ ~last.args.test)
           => /\ ~tried_any({"statement", "invoice"})
              /\ last.r.document = NoDocuments
        /\ ( /\ DayOf(Now) # PaymentReminderDay
             /\ ~last.args.test /\ ~last.args.payment_reminders )
           => (~tried_any({"payment_reminder"}) /\ last.r.payment_reminders = {})
        /\ ( /\ DayOf(Now) # DueReminderDay
             /\ ~last.args.test /\ ~last.args.due_date_reminders )
           => (~tried_any({"due_date_reminder"}) /\ last.r.due_date_reminders = {})

\* a run without bypass on the 28th: a loan due next month got no statement
\* and no payment reminder, while the due-date reminders went out
C13_Witness ==
    /\ MainRan /\ ~last.args.test /\ ~last.args.no_send
    /\ DayOf(Now) = DueReminderDay
    /\ \E k \in LoanIds : due_next_month(loans[k]) /\ nothing_fails_for(k)
    /\ ~tried_any({"statement", "invoice", "payment_reminder"})
    /\ tried_any({"due_date_reminder"})

\* the loan is in the list of get_loans_due_next_month
listed(k) == \E i \in DOMAIN last.r.due_list : last.r.due_list[i] = k

\* invoice_number, loan_amount and remaining_balance are there
required_fields(ln) ==
    /\ ln.invoice_number # None
    /\ ln.loan_amount # None
    /\ ln.remaining_balance >= 0

\* C14: in the statement step every loan due next month with its client and
\* the required fields is classified by its remaining balance alone: above 0
\* it is a Statement, at 0 a Paid Invoice, never both, and the email sent for
\* it is of that class.
C14_ClassifiedByBalance ==
    Did("statements") =>
        \A k \in LoanIds :
            /\ (listed(k) /\ required_fields(loans[k]))
               => /\ last.r.document[k] \in {"statement", "invoice"}
                  /\ loans[k].remaining_balance > 0 => last.r.document[k] = "statement"
                  /\ loans[k].remaining_balance = 0 => last.r.document[k] = "invoice"
                  /\ \A i \in DOMAIN last.r.tried :
                        ( /\ last.r.tried[i].loan = k
                          /\ last.r.tried[i].kind \in {"statement", "invoice"} )
                        => last.r.tried[i].kind = last.r.document[k]
            /\ ( /\ due_next_month(loans[k]) /\ has_client(loans[k], clients)
                 /\ outage.site = "none" /\ due_list_built )
               => listed(k)

\* a fully paid loan got its paid invoice and a loan with a balance its
\* statement in the same run
C14_Witness ==
    /\ Did("statements")
    /\ \E k, j \in LoanIds :
          /\ due_next_month(loans[k]) /\ loans[k].remaining_balance = 0
          /\ last.r.document[k] = "invoice" /\ notified(k, {"invoice"})
          /\ due_next_month(loans[j]) /\ loans[j].remaining_balance > 0
          /\ last.r.document[j] = "statement" /\ notified(j, {"statement"})

\* a balance of 750.00 is a Statement
Balance750IsStatement ==
    /\ Did("statements")
    /\ \E k \in LoanIds : /\ loans[k].remaining_balance = 75000
                          /\ last.r.document[k] = "statement"
                          /\ notified(k, {"statement"})

\* C15: in a main run the overdue-notice step executes if and only if this
\* run set a loan to overdue or test mode is set; when it executes, every
\* overdue loan whose client has an email gets an overdue notice, the loans
\* set to overdue by earlier runs included.
C15_OverdueNoticesIffTransitionOrTest ==
    MainRan =>
        /\ Did("overdue_notices") <=> (last.r.overdue_count > 0 \/ last.args.test)
        /\ ~(last.r.overdue_count > 0 \/ last.args.test)
           => (~tried_any({"overdue_notice"}) /\ last.r.overdue_notifications = {})
        /\ (Did("overdue_notices") /\ outage.site \in {"none", "smtp.admin"})
           => \A k \in LoanIds :
                 ( /\ loans[k].status = "overdue"
                   /\ has_email(loans[k], clients)
                   /\ required_fields(loans[k]) )
                 => /\ k \in last.r.overdue_notifications
                    /\ send_emails_of(last.args) => notified(k, {"overdue_notice"})

\* a daily run set a loan to overdue and sent the notice to it and to a loan
\* that an earlier run had set to overdue
C15_Witness ==
    /\ MainRan /\ ~last.args.test
    /\ last.r.overdue_count > 0
    /\ \E k, j \in LoanIds :
          /\ last.pre[k].status = "overdue" /\ notified(k, {"overdue_notice"})
          /\ last.pre[j].status = "active" /\ loans[j].status = "overdue"
          /\ notified(j, {"overdue_notice"})

\* a daily run that set no loan to overdue left an overdue loan with an email
\* without a notice
NoTransitionNoNotice ==
    /\ MainRan /\ ~last.args.test /\ ~last.args.no_send
    /\ last.r.overdue_count = 0
    /\ \E k \in LoanIds : loans[k].status = "overdue" /\ has_email(loans[k], clients)
    /\ ~tried_any({"overdue_notice"})

\* the SMTP server took the email
taken(e) == \E i \in DOMAIN last.r.outbox : last.r.outbox[i] = e

\* the client of loan k and the copy address both got the email of the kind
pair_taken(kind, k) ==
    taken(Email(kind, k, "client")) /\ taken(Email(kind, k, "copy"))

\* the loans counted by a loop are those whose email of one of the kinds went
\* out to the client and to the copy address
counted_are_pairs(counted, kinds) ==
    \A k \in LoanIds : k \in counted <=> \E kind \in kinds : pair_taken(kind, k)

C17_NoSendSendsNothing ==
    (Ran /\ last.args.no_send) =>
        /\ last.r.tried = <<>>
        /\ (Did("statements") /\ outage.site = "none")
           => \A k \in LoanIds :
                 (due_next_month(loans[k]) /\ nothing_fails_for(k))
                 => (last.r.document[k] # "none" /\ k \in last.r.success)

\* C17, amended: with --no-send and without --test the run is a dry run for
\* every combination of the remaining flags: send_email is called for no
\* email at all, while the loans are still classified and counted.
C17_DryRunWithoutTest ==
    (Ran /\ last.args.no_send /\ ~last.args.test) =>
        /\ last.r.tried = <<>>
        /\ (Did("statements") /\ outage.site = "none")
           => \A k \in LoanIds :
                 (due_next_month(loans[k]) /\ nothing_fails_for(k))
                 => (last.r.document[k] # "none" /\ k \in last.r.success)

\* a dry run with --admin-summary on the 22nd classified and counted a loan
\* and sent nothing
C17_Witness ==
    /\ Did("statements") /\ last.args.no_send /\ last.args.admin_summary
    /\ last.r.tried = <<>>
    /\ \E k \in LoanIds : last.r.document[k] = "statement" /\ k \in last.r.success

\* --test with --no-send sent a statement to a client
TestOverridesNoSend ==
    /\ MainRan /\ last.args.no_send /\ last.args.test
    /\ \E k \in LoanIds : notified(k, {"statement"})

\* run_cli's initial check_database_connection returned False
initial_check_failed == last.r.op = "db_down"

\* main's own connection test raised
main_test_failed == last.r.op = "main" /\ Did("failed")

\* send_email was called for a client or for the copy address
client_mail_tried ==
    \E i \in DOMAIN last.r.tried : last.r.tried[i].to \in {"client", "copy"}

\* send_email was called for the alert to the admin
admin_alert_tried ==
    \E i \in DOMAIN last.r.tried : last.r.tried[i] = Email("admin_error", 0, "admin")

\* C18: a connectivity failure is fatal for the whole run wherever it is
\* detected, by the initial check_database_connection of run_cli or by the
\* connection test of main: the exit code is 1, no loan is changed and no
\* client notification is sent; every other run exits with 0.
C18_ConnectivityFailureExitsOne ==
    (Ran /\ ~last.args.check_db) =>
        IF initial_check_failed \/ main_test_failed
        THEN /\ last.r.exit_code = 1
             /\ loans = last.pre
             /\ ~client_mail_tried
        ELSE last.r.exit_code = 0

\* what holds of it: a failure of the initial check exits with 1; a failure
\* detected at either place changes no loan and sends nothing to a client;
\* a run without such a failure exits with 0
ConnectivityFailureStopsTheRun ==
    (Ran /\ ~last.args.check_db) =>
        /\ initial_check_failed => last.r.exit_code = 1
        /\ (initial_check_failed \/ main_test_failed)
           => (loans = last.pre /\ ~client_mail_tried /\ last.r.steps \in {<<>>, <<"failed">>})
        /\ ~(initial_check_failed \/ main_test_failed) => last.r.exit_code = 0

\* the store was lost between the initial check and the connection test of
\* main: the run is abandoned and the exit code is 0
MainTestFailureExitsZero ==
    /\ main_test_failed /\ last.r.exit_code = 0
    /\ \E k \in LoanIds : last.pre[k].status = "active"
                          /\ last.pre[k].payment_due_date < Now

\* C19: whenever a connectivity failure aborts a run that may send emails,
\* send_email is called for an alert to the admin; whether that email goes out
\* or not, the exit code is the same.
C19_ConnectivityFailureAlertsAdmin ==
    ( /\ Ran /\ ~last.args.check_db /\ ~last.args.no_send
      /\ (initial_check_failed \/ main_test_failed) )
    => admin_alert_tried

\* what holds of it: the alert is tried after a failure of the initial check
\* unless --no-send is given, and after a failure of main's connection test
\* only with --admin-summary; a refused alert leaves the exit code alone
AlertAfterInitialCheckOnly ==
    (Ran /\ ~last.args.check_db) =>
        /\ initial_check_failed
           => /\ admin_alert_tried <=> ~last.args.no_send
              /\ last.r.exit_code = 1
        /\ main_test_failed
           => /\ admin_alert_tried
                 <=> (send_emails_of(last.args) /\ last.args.admin_summary)
              /\ last.r.exit_code = 0

\* the network was down: the alert was tried and refused, and the exit code
\* is 1 all the same
RefusedAlertKeepsExitCode ==
    /\ initial_check_failed /\ admin_alert_tried
    /\ last.r.outbox = <<>> /\ last.r.exit_code = 1

\* C20: an exception raised inside main is caught: main returns normally, the
\* run ends with exit code 0, and send_email is called for an error
\* notification to the admin whenever the run may send emails; a failure of
\* that notification is caught too.
C20_MainFailureNotifiesAdmin ==
    main_test_failed =>
        /\ last.r.exit_code = 0
        /\ send_emails_of(last.args) => admin_alert_tried

\* what holds of it: main returns normally after the exception, also when the
\* notification it tried was refused
MainReturnsNormally ==
    main_test_failed =>
        /\ last.r.exit_code = 0
        /\ last.r.steps = <<"failed">>
        /\ loans = last.pre

\* the notification of main was tried and refused, and main returned normally
RefusedNotificationIsCaught ==
    /\ main_test_failed /\ admin_alert_tried
    /\ last.r.outbox = <<>> /\ last.r.exit_code = 0

(***************************************************************************)
(* Runs over a store with malformed payment rows and a loan whose          *)
(* penalties column is NULL: what the handlers of the batches catch.       *)
(***************************************************************************)
Payment(l, date, amount, format) ==
    [loan_id |-> l, payment_date |-> date, amount |-> amount, date_format |-> format]

\* payment rows present at the start: none, a regular one of loan 1, one whose
\* payment_date datetime.fromisoformat rejects, one whose amount float() rejects,
\* one made at the end of November, a post-dated one, and one of loan 2
LogPayments ==
    { <<>>,
      <<Payment(1, Date(2024, 12, 5), 25508, "iso")>>,
      <<Payment(1, Date(2024, 12, 5), 25508, "text")>>,
      <<Payment(1, Date(2024, 12, 5), Unparseable, "iso")>>,
      <<Payment(1, Date(2024, 11, 30), 300000, "iso")>>,
      <<Payment(1, Date(2024, 12, 30), 300000, "iso")>>,
      <<Payment(2, Date(2024, 12, 5), 300000, "iso")>> }

LogKinds(l) ==
    IF l = 1
    THEN { Loan("overdue", 500000, 500000, 0, PastDue),
           Loan("overdue", 500000, 500000, None, PastDue),
           Loan("active",  500000, 500000, 0, PastDue) }
    ELSE IF l = 2
    THEN { Loan("active", 900000, 900000, 0, NextDue),
           Loan("overdue", Unparseable, 900000, 0, PastDue) }
    ELSE { Loan("paid", 900000, 0, 0, PastDue) }

LogTables ==
    {t \in [LoanIds -> UNION {LogKinds(l) : l \in LoanIds}] :
        \A l \in LoanIds : t[l] \in LogKinds(l)}

InitLog ==
    /\ loans \in LogTables
    /\ payments \in LogPayments
    /\ clients = ClientTable
    /\ licences = LicenceTable
    /\ today = 1
    /\ runs = 0
    /\ outage = NoFault
    /\ last = Idle
    /\ rcall = NoCall
    /\ proc = NoProc

NextLog ==
    \/ Tick
    \/ \E a \in PaymentAmounts : RecordPayment(1, a)
    \/ \E args \in BatchArgs : RunOnce(args)

SpecLog == InitLog /\ [][NextLog]_vars

\* C21: no error is silently dropped: every exception the engine catches is
\* followed by a log entry for it before processing continues.
C21_EveryCaughtExceptionLogged == \A e \in last.log : e.logged

\* the handlers of the batch loops and of the payment amounts do log
BatchHandlersLog ==
    \A e \in last.log :
        e.handler \in {"overdue.loan", "overdue.payment_amount",
                       "penalty.loan", "penalty.payment_amount"} => e.logged

LoggedHandlerReached ==
    \E e \in last.log : e.handler = "penalty.payment_amount" /\ e.logged

\* the handler of the payment date was reached and wrote nothing
SilentPaymentDateHandler ==
    \E e \in last.log : e.handler = "penalty.payment_date" /\ ~e.logged

\* the payments of loan l dated in the month of today and not after today
payments_in_window(l) ==
    SelectSeq(payments, LAMBDA p : /\ p.loan_id = l
                                   /\ YearOf(p.payment_date) = YearOf(Now)
                                   /\ MonthOf(p.payment_date) = MonthOf(Now)
                                   /\ p.payment_date <= Now)

\* the payments in the window add up to the expected payment of the loan
window_sufficient(l, ln) ==
    FxGeq(sum_payments(payments_in_window(l), FxZero), expected_payment(ln.loan_amount))

\* a payment of amount a exists that is no payment of loan l in the window
outside_payment(l, a) ==
    \E i \in DOMAIN payments :
        /\ payments[i].amount = a
        /\ \/ payments[i].loan_id # l
           \/ payments[i].payment_date < first_day_of_month(Now)
           \/ payments[i].payment_date > Now

\* C22: the overdue transition and the penalty application decide sufficiency
\* on the payments of the loan dated from the first day of the current month
\* to now, and on nothing else; both decide it the same way.
C22_SufficiencyWindow ==
    \A l \in LoanIds :
        /\ last.r.overdue[l] \in {"skipped", "unchanged", "updated"}
             => (last.r.overdue[l] = "skipped" <=> window_sufficient(l, last.pre[l]))
        /\ last.r.penalty[l] \in {"skipped", "unchanged", "penalised"}
             => (last.r.penalty[l] = "skipped" <=> window_sufficient(l, last.r.mid[l]))

\* a payment outside the window that would cover the expected payment was
\* on record when a loan was found short, in both operations
C22_Witness ==
    /\ \E l \in LoanIds : last.r.overdue[l] = "updated" /\ outside_payment(l, 300000)
    /\ \E l \in LoanIds : last.r.penalty[l] = "penalised" /\ outside_payment(l, 300000)

\* the loans whose status the overdue transition of the latest run changed
status_changed == {l \in LoanIds : last.pre[l].status # last.r.mid[l].status}

\* the loans whose penalties the penalty application of the latest run increased
penalties_increased ==
    {l \in LoanIds : last.r.loans[l].penalties > last.r.mid[l].penalties}

\* C23: update_overdue_loans returns the number of loans it changed from
\* active to overdue, apply_penalties_to_overdue_loans returns first the number
\* of loans whose penalties it increased; both are 0 when the initial query
\* fails.
C23_CountsEqualChanges ==
    Ran =>
        /\ \A l \in status_changed :
              last.pre[l].status = "active" /\ last.r.mid[l].status = "overdue"
        /\ last.r.overdue_count = Cardinality(status_changed)
        /\ last.r.penalty_count = Cardinality(penalties_increased)
        /\ \A l \in LoanIds : last.r.loans[l].penalties >= last.r.mid[l].penalties
        /\ ~call_ok("overdue.query_overdue_loans", 0, outage) => last.r.overdue_count = 0
        /\ ~call_ok("penalty.query_overdue_loans", 0, outage) => last.r.penalty_count = 0

\* a run counted a transition and a penalty while an update of another loan
\* returned no row or failed
C23_Witness ==
    /\ last.r.overdue_count = 1 /\ last.r.penalty_count >= 1
    /\ \E l \in LoanIds : last.r.overdue[l] \in {"unchanged", "error"}

C23_WitnessQueryFails ==
    /\ Did("overdue") /\ Did("penalties")
    /\ ~call_ok("penalty.query_overdue_loans", 0, outage)
    /\ \E l \in LoanIds : last.r.mid[l].status = "overdue"

(***************************************************************************)
(* Runs over loans due on the first, the 28th and the last day of months   *)
(* of every length.                                                        *)
(***************************************************************************)
PastDueDates ==
    { Date(2023, 2, 28), Date(2024, 2, 29), Date(2024, 2, 1), Date(2024, 1, 31),
      Date(2024, 4, 30), Date(2024, 10, 31), Date(2024, 11, 28), Date(2024, 11, 29) }

NextDueDates ==
    { Date(2025, 1, 1), Date(2025, 1, 28), Date(2025, 1, 31),
      Date(2025, 2, 1), Date(2025, 2, 27), Date(2025, 2, 28) }

SoonDueDates == { Date(2024, 12, 28), Date(2024, 12, 29), Date(2024, 12, 30) }

DateKinds(l) ==
    IF l = 1
    THEN { Loan("overdue", 500000, 500000, 0, d) : d \in PastDueDates }
         \cup { Loan("overdue", 500000, 500000, 0, Date(2025, 1, 28)),
                Loan("paid", 500000, 0, 0, Date(2024, 12, 29)),
                Loan("active", 500000, 0, 0, Date(2025, 1, 28)) }
    ELSE IF l = 2
    THEN { Loan("active", 900000, 900000, 0, d) : d \in NextDueDates \cup SoonDueDates }
         \cup { OfClient2(Loan("active", 900000, 900000, 0, Date(2024, 12, 29))) }
    ELSE { Loan("paid", 900000, 0, 0, PastDue) }

DateTables ==
    {t \in [LoanIds -> UNION {DateKinds(l) : l \in LoanIds}] :
        \A l \in LoanIds : t[l] \in DateKinds(l)}

InitDates == InitStore(DateTables, {NoFault})

\* the daily run, the run with --test, and the manual due-date reminders
DateArgs ==
    { NoArgs, [NoArgs EXCEPT !.test = TRUE],
      [NoArgs EXCEPT !.due_date_reminders = TRUE] }

NextDates ==
    \/ Tick
    \/ \E args \in DateArgs : RunOnce(args)

SpecDates == InitDates /\ [][NextDates]_vars

C25_PaymentAmountShown ==
    \A l \in LoanIds :
        last.shown[l] # NoDate =>
            LET ln == last.r.loans[l]
                b  == (2 * ln.loan_amount + 3) \div 6
            IN  /\ ln.loan_amount = 900000 => b = 300000
                /\ ln.penalties = 0 => last.shown[l].amount = b
                /\ ln.penalties > 0 =>
                      /\ last.shown[l].amount > b
                      /\ last.shown[l].amount - b
                            = missed_and_penalty(ln.penalties, b)

\* the amount of a loan of 9000.00 without penalties and that of a loan of
\* 5000.00 with penalties of 500.00 were displayed: 3000.00 and 918335.17
C25_Witness ==
    /\ Ran
    /\ last.r.loans[2].loan_amount = 900000 /\ last.r.loans[2].penalties = 0
    /\ last.shown[2].amount = 300000
    /\ last.r.loans[1].penalties = 50000
    /\ last.shown[1].amount = 91833517

\* the due-date reminders of the latest invocation passed the 28th gate
reminder_gate_open ==
    /\ Ran
    /\ Did("due_date_reminders")
    /\ DayOf(Now) = DueReminderDay \/ last.args.due_date_reminders

\* the loan is active and due from today to the first day of the next month
due_in_reminder_window(ln) ==
    /\ ln.status = "active"
    /\ ln.payment_due_date >= Now
    /\ (\/ (YearOf(ln.payment_due_date) = YearOf(Now)
            /\ MonthOf(ln.payment_due_date) = MonthOf(Now))
        \/ ln.payment_due_date = next_month_start(Now))

\* C26: on day 28, or with the 28th gate bypassed, a due-date reminder is
\* produced for exactly the active loans due within [now, start of next month]
\* whose client has an email; it is urgent if the loan falls due today or
\* tomorrow and normal otherwise.
C26_DueDateReminders ==
    reminder_gate_open =>
        \A l \in LoanIds :
            /\ l \in last.r.due_date_reminders
                 <=> (due_in_reminder_window(last.r.loans[l])
                      /\ clients[last.r.loans[l].client_id].email # "")
            /\ taken(Email("due_date_reminder", l, "client"))
                 <=> l \in last.r.due_date_reminders
            /\ l \in last.r.due_date_reminders =>
                 last.urgency[l] =
                    (IF last.r.loans[l].payment_due_date \in {Now, plus_days(Now, 1)}
                     THEN "urgent" ELSE "normal")

\* on the 28th a loan due on the 29th got an urgent reminder; with the gate
\* bypassed on the 22nd a loan due on the 30th got a normal one
C26_Witness ==
    /\ reminder_gate_open
    /\ last.urgency[2] = "urgent"
    /\ last.r.loans[2].payment_due_date = Date(2024, 12, 29)
    /\ DayOf(Now) = DueReminderDay

C26_WitnessBypass ==
    /\ reminder_gate_open /\ last.args.due_date_reminders
    /\ DayOf(Now) # DueReminderDay
    /\ last.urgency[2] = "normal"

(***************************************************************************)
(* One main run followed statement by statement: the loops in the order    *)
(* main enters them, the loans of each loop one after the other, the       *)
(* remote operations of each loan, the attempts of each operation.  What   *)
(* a query returns, which gate is open and which branch the data of a loan *)
(* selects are chosen freely; every attempt of a remote operation may      *)
(* return or raise.                                                        *)
(***************************************************************************)
Loops ==
    << "overdue", "penalties", "overdue_notices", "reminder_list",
       "payment_reminders", "due_date_reminders", "due_list", "statements" >>

\* the loop starts with a query of its own, wrapped in retry_with_backoff
has_query(loop) == loop \notin {"payment_reminders", "statements"}

\* the remote operations of one pass of the loop, in order
LoopOps(loop) ==
    CASE loop = "overdue" ->
            <<"query_payments", "update_loan_status", "get_client_info">>
      [] loop = "penalties" ->
            <<"query_payments", "update_loan_penalty", "get_client_info">>
      [] loop \in {"overdue_notices", "due_date_reminders"} ->
            <<"get_client_info", "get_licence_info", "query_payments",
              "smtp.client", "smtp.copy">>
      [] loop \in {"reminder_list", "due_list"} -> <<"query_client", "query_licence">>
      [] OTHER -> <<"smtp.client", "smtp.copy">>

\* get_loans_due_next_month has no try block inside its loop
aborts_loop(loop) == loop \in {"reminder_list", "due_list"}

\* operations whose failure is caught around the call, the pass going on
tolerated(loop, name) ==
    /\ loop \in {"overdue_notices", "due_date_reminders"}
    /\ name \in {"get_licence_info", "query_payments"}

\* exceptions_to_retry of the operation
retried_of(name) ==
    IF name \in {"smtp.client", "smtp.copy"} THEN SmtpExceptions ELSE AnyException

\* what a query may return: the loans in the order of the table
Lists == {SelectSeq(IdSeq, LAMBDA l : l \in S) : S \in SUBSET LoanIds}

retries_never_counted(retries) == 0

\* retries += 1
retries_after_failure(retries) == retries + 1

LoopName == Loops[proc.loop]

OpName == IF proc.op = 0 THEN "query" ELSE LoopOps(LoopName)[proc.op]

\* the loop is left: main goes on to the next one
leave_loop(failed) ==
    [pc |-> "enter", loop |-> proc.loop + 1, todo |-> <<>>, op |-> 0,
     retries |-> 0, failed |-> failed]

\* the for loop over the list begins
begin_loop(list, failed) ==
    IF list = <<>> THEN leave_loop(failed)
    ELSE [pc |-> "call", loop |-> proc.loop, todo |-> list, op |-> 1,
          retries |-> 0, failed |-> failed]

\* continue, or the end of the body: the next loan of the list
next_loan(failed) ==
    IF Len(proc.todo) <= 1 THEN leave_loop(failed)
    ELSE [pc |-> "call", loop |-> proc.loop, todo |-> Tail(proc.todo), op |-> 1,
          retries |-> 0, failed |-> failed]

\* the next operation of the same loan
next_op(go_on, failed) ==
    IF go_on /\ proc.op < Len(LoopOps(LoopName))
    THEN [proc EXCEPT !.op = proc.op + 1, !.retries = 0, !.failed = failed]
    ELSE next_loan(failed)

StartRun ==
    /\ proc.pc = "idle"
    /\ proc' = [NoProc EXCEPT !.pc = "enter"]
    /\ UNCHANGED <<loans, payments, clients, licences, today, runs, outage, last, rcall>>

\* main reaches the step: its gate is closed, or its query is made, or the
\* loop over the list handed to it begins
EnterLoop(open, list) ==
    /\ proc.pc = "enter"
    /\ proc.loop <= Len(Loops)
    /\ proc' = IF ~open THEN leave_loop(proc.failed)
               ELSE IF has_query(LoopName) THEN [proc EXCEPT !.pc = "call"]
               ELSE begin_loop(list, proc.failed)
    /\ UNCHANGED <<loans, payments, clients, licences, today, runs, outage, last, rcall>>

\* one pass of the while loop of retry_with_backoff: func() returns or raises
Attempt(out, list, go_on) ==
    /\ proc.pc = "call"
    /\ proc' =
        IF out = "ok"
        THEN IF proc.op = 0 THEN begin_loop(list, proc.failed)
             ELSE next_op(go_on, proc.failed)
        ELSE IF /\ out \in retried_of(OpName)
                /\ retries_after_failure(proc.retries) < max_retries
        THEN [proc EXCEPT !.pc = "backoff",
                          !.retries = retries_after_failure(proc.retries)]
        ELSE \* raised to the caller of retry_with_backoff
             IF proc.op = 0 \/ aborts_loop(LoopName) THEN leave_loop(TRUE)
             ELSE IF tolerated(LoopName, OpName) THEN next_op(TRUE, TRUE)
             ELSE next_loan(TRUE)
    /\ UNCHANGED <<loans, payments, clients, licences, today, runs, outage, last, rcall>>

\* time.sleep(wait_time) returns
Backoff ==
    /\ proc.pc = "backoff"
    /\ proc' = [proc EXCEPT !.pc = "call"]
    /\ UNCHANGED <<loans, payments, clients, licences, today, runs, outage, last, rcall>>

\* main returns
Finish ==
    /\ proc.pc = "enter"
    /\ proc.loop > Len(Loops)
    /\ proc' = [proc EXCEPT !.pc = "done"]
    /\ UNCHANGED <<loans, payments, clients, licences, today, runs, outage, last, rcall>>

NextSteps ==
    \/ StartRun
    \/ \E open \in BOOLEAN, list \in Lists : EnterLoop(open, list)
    \/ \E out \in Outcomes, list \in Lists, go_on \in BOOLEAN : Attempt(out, list, go_on)
    \/ Backoff
    \/ Finish

\* the interpreter executes the next statement: a call returns or raises and
\* a sleep ends
SpecSteps == Init /\ [][NextSteps]_vars /\ WF_vars(NextSteps)

\* s is what is left of t after some loans at its head
Suffix(s, t) == \E n \in 0 .. Len(t) : s = SubSeq(t, n + 1, Len(t))

\* at most three attempts of an operation
AttemptsBounded ==
    proc.pc \in {"call", "backoff"} => proc.retries + 1 <= max_retries

\* a step moves on in the list of the loop or on to a later loop
MovesForward ==
    /\ proc'.loop >= proc.loop
    /\ (proc'.loop = proc.loop /\ proc.todo # <<>>) =>
          /\ Suffix(proc'.todo, proc.todo)
          /\ proc'.todo = proc.todo => proc'.op >= proc.op

\* C27: every run over a finite set of loans terminates, whatever the pattern
\* of remote-call failures: the loans of a loop are processed one at a time
\* and never again, every remote operation is attempted at most 3 times, and
\* the run reaches its end.
C27_RunTerminates ==
    /\ []AttemptsBounded
    /\ [][MovesForward]_vars
    /\ (proc.pc = "enter" ~> proc.pc = "done")

\* a run in which an operation failed three times reached its end
C27_Witness == proc.pc = "done" /\ proc.failed

\* the order in which main calls its steps
StepOrder ==
    << "overdue", "penalties", "overdue_notices", "payment_reminders",
       "due_date_reminders", "statements" >>

position(step) == CHOOSE i \in DOMAIN StepOrder : StepOrder[i] = step

\* loan l was active before the latest run, which marked it overdue
marked_overdue(l) ==
    last.pre[l].status = "active" /\ last.r.mid[l].status = "overdue"

\* C28: the steps of a main run execute in the order overdue transition,
\* penalties, overdue notices, payment reminders, due-date reminders,
\* statements; so a loan that a run on the 3rd, or with --test, marks overdue
\* is penalized by the same run, and its overdue notice shows the loan with
\* the penalty stored.
C28_StepsInOrder ==
    (MainRan /\ ~Did("failed")) =>
        /\ \A i, j \in DOMAIN last.r.steps :
              /\ last.r.steps[i] \in Range(StepOrder)
              /\ i < j => position(last.r.steps[i]) < position(last.r.steps[j])
        /\ \A l \in LoanIds :
              (marked_overdue(l) /\ (DayOf(Now) = PenaltyDay \/ last.args.test)) =>
                  /\ last.r.penalty[l] = "penalised"
                  /\ last.r.loans[l].penalties
                        = last.pre[l].penalties + new_penalty(last.pre[l].loan_amount)
                  /\ l \in last.r.overdue_notifications
                  /\ last.shown[l].amount
                        = base_payment(last.pre[l])
                          + missed_and_penalty(last.r.loans[l].penalties,
                                               base_payment(last.pre[l]))

\* on the 3rd a run without --test marked loan 1 overdue, penalized it and
\* sent its notice
C28_Witness ==
    /\ MainRan /\ ~last.args.test /\ DayOf(Now) = PenaltyDay
    /\ marked_overdue(1)
    /\ last.r.steps = <<"overdue", "penalties", "overdue_notices">>
    /\ taken(Email("overdue_notice", 1, "client"))

\* the action run_cli selects: the first flag given of --apply-penalties,
\* --payment-reminders, --due-date-reminders, or else the main run
selected(args) ==
    IF args.apply_penalties THEN "apply_penalties"
    ELSE IF args.payment_reminders THEN "payment_reminders"
    ELSE IF args.due_date_reminders THEN "due_date_reminders"
    ELSE "main"

\* the kinds of email of the action
kinds_of(op) ==
    IF op = "payment_reminders" THEN {"payment_reminder"}
    ELSE IF op = "due_date_reminders" THEN {"due_date_reminder"}
    ELSE {}

\* C29: the actions of the command line exclude each other, --apply-penalties
\* before --payment-reminders before --due-date-reminders before the main run;
\* with one of the three flags only that operation executes: no loan becomes
\* overdue, --apply-penalties sends no email, and after the reminders the date
\* predicates of the module are the original ones again.
C29_FlagsExclusive ==
    (Ran /\ last.r.op \notin {"check_db", "db_down"}) =>
        /\ last.r.op = selected(last.args)
        /\ last.r.op # "main" =>
              /\ last.r.steps = <<IF last.r.op = "apply_penalties" THEN "penalties"
                                   ELSE last.r.op>>
              /\ last.r.overdue = NotReached
              /\ \A l \in LoanIds : last.r.loans[l].status = last.pre[l].status
              /\ \A i \in DOMAIN last.r.tried :
                    last.r.tried[i].kind \in kinds_of(last.r.op)
              /\ last.r.op # "apply_penalties" =>
                    (last.r.loans = last.pre /\ last.r.penalty = NotReached)
        /\ last.r.predicates = OriginalPredicates

\* all three flags and --test were given: the penalties were applied to an
\* overdue loan and nothing else happened
C29_Witness ==
    /\ Ran /\ last.args.apply_penalties /\ last.args.payment_reminders
    /\ last.args.due_date_reminders /\ last.args.test
    /\ last.r.op = "apply_penalties"
    /\ \E l \in LoanIds : last.r.penalty[l] = "penalised"
    /\ \E l \in LoanIds : last.pre[l].status = "active"
                          /\ last.pre[l].payment_due_date < Now

\* --payment-reminders on another day than the 22nd: the reminders went out
\* and the predicate is the original one
C29_WitnessReminders ==
    /\ Ran /\ last.r.op = "payment_reminders" /\ DayOf(Now) # PaymentReminderDay
    /\ tried_any({"payment_reminder"})
    /\ last.r.predicates = OriginalPredicates

ReminderKinds == {"payment_reminder", "due_date_reminder", "statement", "invoice"}

\* the loans counted by the reminder and statement loops of the latest run
reminded ==
    last.r.payment_reminders \cup last.r.due_date_reminders \cup last.r.success
    \cup {l \in LoanIds : last.r.document[l] # "none"}

\* C30: payment reminders, due-date reminders, statements and paid invoices
\* are emitted only for loans whose status is active when they are queried:
\* never for an overdue or paid loan, and never for a loan the same run has
\* marked overdue.
C30_OnlyActiveLoansReminded ==
    Ran =>
        /\ \A i \in DOMAIN last.r.tried :
              last.r.tried[i].kind \in ReminderKinds =>
                  /\ last.pre[last.r.tried[i].loan].status = "active"
                  /\ last.r.loans[last.r.tried[i].loan].status = "active"
        /\ \A l \in reminded :
              last.pre[l].status = "active" /\ last.r.loans[l].status = "active"

\* on the 22nd an overdue loan due next month got neither reminder nor
\* statement, while the active loan due next month got both
C30_Witness ==
    /\ MainRan /\ DayOf(Now) = PaymentReminderDay
    /\ last.pre[1].status = "overdue"
    /\ last.pre[1].payment_due_date >= next_month_start(Now)
    /\ last.pre[1].payment_due_date <= next_month_end(Now)
    /\ taken(Email("payment_reminder", 2, "client"))
    /\ taken(Email("statement", 2, "client"))
    /\ ~\E i \in DOMAIN last.r.tried : last.r.tried[i].loan = 1

\* on the 3rd a run with --test marked loan 2 overdue and sent it an overdue
\* notice, and no reminder or statement
C30_WitnessMarkedOverdue ==
    /\ MainRan /\ last.args.test
    /\ last.pre[2].status = "active" /\ last.r.loans[2].status = "overdue"
    /\ taken(Email("overdue_notice", 2, "client"))
    /\ 2 \notin reminded

====
